---- MODULE Spec2Model ----
(***************************************************************************)
(* Model of the data-aggregation core of the PIN dashboard client          *)
(* (src/streamlit_ui/api_client.py): the safe HTTP call wrapper, the six   *)
(* getters built on it and the concurrent fetch_all_data orchestrator.     *)
(*                                                                         *)
(* Python values that come from the network are tagged records             *)
(* [t |-> type, v |-> payload]; a Python dict is a function from its keys  *)
(* (strings) to tagged values; a dataclass instance is a record with a     *)
(* cls field; a call that raises is Raise(exception class).  Wall-clock    *)
(* fields (last_check, timestamp) are not part of any modelled decision    *)
(* and are left out of the records.                                        *)
(***************************************************************************)
EXTENDS Integers, Sequences, FiniteSets, TLC

VARIABLES
    call,       \* the last single invocation of safe_api_call or of a getter
    env,        \* fetch cycle: each node's condition and the random draws
    pc,         \* fetch cycle: "idle", "gathering", "done"
    results,    \* fetch cycle: what each task of the gather has produced so far
    timedOut,   \* fetch cycle: the overall deadline fired
    overtook,   \* fetch cycle: some task finished before an earlier one of the list
    ret,        \* fetch cycle: what fetch_all_data returned (or raised)
    agg,        \* the last single invocation of aggregate_execution_metrics
    session,    \* display session: st.session_state and the cycles it has run
    cache,      \* a DataCache and what has been added to it
    norm        \* the last single invocation of a field normalizer

vars == <<call, env, pc, results, timedOut, overtook, ret, agg, session,
          cache, norm>>

----------------------------------------------------------------------------
(* Bounds of the model *)

\* largest node id a getter is asked about (ids 0 and above 4 are unregistered)
MaxRequestedId == 5
\* largest measured response time, in ms
MaxResponseTime == 1
\* how many positions a completing task may be ahead of the oldest pending one
MaxOvertake == 2
\* the display session is followed for this many completed cycles
MaxCycles == 3
\* largest max_size a DataCache is constructed with
MaxSize == 3
\* how many entries are added to one history of a DataCache
MaxInserts == 5

----------------------------------------------------------------------------
(* Python values *)

JNull == [t |-> "null", v |-> 0]
JInt(n) == [t |-> "int", v |-> n]
\* a float, held in thousandths
JFloat(milli) == [t |-> "float", v |-> milli]
JStr(s) == [t |-> "str", v |-> s]
JList(l) == [t |-> "list", v |-> l]
JDict(d) == [t |-> "dict", v |-> d]
\* a response body that response.json() cannot decode
Undecodable == [t |-> "undecodable", v |-> 0]
\* the empty dict
EmptyDict == [k \in {} |-> JNull]

\* Python truthiness of a value (bool(x))
Truthy(x) ==
    CASE x.t = "null" -> FALSE
      [] x.t = "int"  -> x.v # 0
      [] x.t = "float" -> x.v # 0
      [] x.t = "str"  -> x.v # ""
      [] x.t = "list" -> x.v # <<>>
      [] x.t = "dict" -> DOMAIN x.v # {}
      [] OTHER        -> TRUE

\* d.get(k, default)
Get(d, k, default) == IF k \in DOMAIN d THEN d[k] ELSE default

\* d[k] = x
SetItem(d, k, x) == [j \in DOMAIN d \cup {k} |-> IF j = k THEN x ELSE d[j]]

\* the outcome of evaluating a Python expression: a value, or a raised exception
Return(x) == [raised |-> FALSE, val |-> x]
Raise(e) == [raised |-> TRUE, val |-> e]

----------------------------------------------------------------------------
(* Endpoint registry: config.NODE_CONFIGS *)

NODE_IDS == {1, 2, 3, 4}

\* MUTANT of NodeType: the publisher node is registered as a service agent
NodeTypePublisherAsAgent(n) ==
    CASE n = 1 -> "SERVICE_AGENT"
      [] n = 2 -> "SERVICE_AGENT"
      [] n = 3 -> "SERVICE_AGENT"
      [] n = 4 -> "BLOCK_BUILDER"

NodeType(n) ==
    CASE n = 1 -> "PUBLISHER"
      [] n = 2 -> "SERVICE_AGENT"
      [] n = 3 -> "SERVICE_AGENT"
      [] n = 4 -> "BLOCK_BUILDER"

HttpPort(n) ==
    CASE n = 1 -> 8100
      [] n = 2 -> 8101
      [] n = 3 -> 8102
      [] n = 4 -> 8103

\* NODE_CONFIGS.get(node_id) is not None
HasConfig(n) == n \in NODE_IDS

BaseUrl(n) ==
    CASE n = 1 -> "http://localhost:8100"
      [] n = 2 -> "http://localhost:8101"
      [] n = 3 -> "http://localhost:8102"
      [] n = 4 -> "http://localhost:8103"

----------------------------------------------------------------------------
(* What one GET can do (the environment of safe_api_call) *)

Statuses == {200, 404, 500}
ResponseTimes == 0..MaxResponseTime

\* an exception raised by AsyncClient.get: a timeout, a refused connection,
\* or any other fault (ReadError stands for the rest); get() never raises
\* HTTPStatusError, which only Response.raise_for_status() does
GetFaults == {"TimeoutException", "ConnectError", "ReadError"}

Fault(e) == [kind |-> e, status |-> 0, body |-> JNull, rt |-> 0]
Response(s, b, r) == [kind |-> "response", status |-> s, body |-> b, rt |-> r]

\* decoded bodies that are not JSON objects
NonObjectBodies == {JNull, JList(<<>>)}

\* every outcome of one GET whose 200 body is drawn from Bodies
\* (the measured time is read only on the success path; elsewhere it is 0)
GetOutcomes(Bodies) ==
    {Fault(e) : e \in GetFaults}
    \cup {Response(s, JNull, 0) : s \in Statuses \ {200}}
    \cup {Response(200, b, 0) : b \in NonObjectBodies \cup {Undecodable}}
    \cup {Response(200, b, r) : b \in Bodies, r \in ResponseTimes}

\* f"HTTP {response.status_code}"
HttpMessage(s) ==
    CASE s = 404 -> "HTTP 404"
      [] s = 500 -> "HTTP 500"
      [] OTHER   -> "HTTP"

----------------------------------------------------------------------------
(* NodeAPIClient.safe_api_call *)

\* the body of the try block: the GET, the status test and the decoding
TryGet(url, out) ==
    IF out.kind # "response" THEN Raise(out.kind)
    ELSE IF out.status = 200
    THEN IF out.body.t = "undecodable"
         THEN \* response.json() raises ValueError, caught by the inner except
              Return([error |-> JStr("invalid_json"),
                      message |-> JStr("Invalid JSON response")])
         ELSE IF out.body.t = "dict"
         THEN Return(SetItem(out.body.v, "_response_time_ms", JInt(out.rt)))
         ELSE \* item assignment on a list, str, int or None
              Raise("TypeError")
    ELSE Return([error |-> JStr("http_error"),
                 status_code |-> JInt(out.status),
                 message |-> JStr(HttpMessage(out.status)),
                 url |-> JStr(url)])

\* MUTANT of ExceptClauses: the catch-all 'except Exception' clause is missing
ExceptClausesNoCatchAll(e, url) ==
    CASE e = "TimeoutException" ->
            Return([error |-> JStr("timeout"),
                    message |-> JStr("Request timeout"), url |-> JStr(url)])
      [] e = "ConnectError" ->
            Return([error |-> JStr("connection_failed"),
                    message |-> JStr("Node offline or unreachable"), url |-> JStr(url)])
      [] e = "HTTPStatusError" ->
            Return([error |-> JStr("http_status_error"),
                    message |-> JStr("HTTP"), url |-> JStr(url)])
      [] OTHER -> Raise(e)

\* MUTANT of ExceptClauses: a refused connection is reported as a timeout
ExceptClausesConnectAsTimeout(e, url) ==
    CASE e \in {"TimeoutException", "ConnectError"} ->
            Return([error |-> JStr("timeout"),
                    message |-> JStr("Request timeout"), url |-> JStr(url)])
      [] e = "HTTPStatusError" ->
            Return([error |-> JStr("http_status_error"),
                    message |-> JStr("HTTP"), url |-> JStr(url)])
      [] OTHER ->
            Return([error |-> JStr("unknown"),
                    message |-> JStr(e), url |-> JStr(url)])

\* the except clauses of safe_api_call, tried in order
ExceptClauses(e, url) ==
    CASE e = "TimeoutException" ->
            Return([error |-> JStr("timeout"),
                    message |-> JStr("Request timeout"), url |-> JStr(url)])
      [] e = "ConnectError" ->
            Return([error |-> JStr("connection_failed"),
                    message |-> JStr("Node offline or unreachable"), url |-> JStr(url)])
      [] e = "HTTPStatusError" ->
            Return([error |-> JStr("http_status_error"),
                    message |-> JStr("HTTP"), url |-> JStr(url)])
      [] OTHER ->
            Return([error |-> JStr("unknown"),
                    message |-> JStr(e), url |-> JStr(url)])

safe_api_call(url, out) ==
    LET r == TryGet(url, out)
    IN  IF r.raised THEN ExceptClauses(r.val, url) ELSE r

----------------------------------------------------------------------------
(* Dataclasses of data_models.py *)

NodeStatus(id, running, port, rt, err) ==
    [cls |-> "NodeStatus", node_id |-> id, is_running |-> running,
     http_port |-> port, response_time_ms |-> rt, error |-> err]

AgentsStatusResponse(a, err) ==
    [cls |-> "AgentsStatusResponse", agents |-> a, error |-> err]

BuildersStatusResponse(b, err) ==
    [cls |-> "BuildersStatusResponse", builders |-> b, error |-> err]

IntentListResponse(i, err) ==
    [cls |-> "IntentListResponse", intents |-> i, error |-> err]

MatchHistoryResponse(m, err) ==
    [cls |-> "MatchHistoryResponse", matches |-> m, error |-> err]

----------------------------------------------------------------------------
(* Iteration and numeric coercion, as Python does them *)

\* 'for x in v': the elements, or TypeError when v is not iterable.  A
\* non-empty str or dict yields str elements (one stands for them all)
Iterate(x) ==
    CASE x.t = "list" -> Return(x.v)
      [] x.t = "str"  -> Return(IF x.v = "" THEN <<>> ELSE <<JStr(x.v)>>)
      [] x.t = "dict" -> Return(IF DOMAIN x.v = {} THEN <<>>
                                ELSE <<JStr(CHOOSE k \in DOMAIN x.v : TRUE)>>)
      [] OTHER        -> Raise("TypeError")

\* the decimal strings int() is asked to parse in this model
IntOfStr ==
    [s \in {"0", "3", "7", "12"} |->
        CASE s = "0" -> 0 [] s = "3" -> 3 [] s = "7" -> 7 [] s = "12" -> 12]

\* a Python int too large for a machine word: hi * 10^6 + lo
JBig(hi, lo) == [t |-> "bigint", v |-> <<hi, lo>>]

\* int(x)
ToInt(x) ==
    CASE x.t = "int"    -> Return(x)
      [] x.t = "bigint" -> Return(x)
      [] x.t = "float"  -> Return(JInt(x.v \div 1000))
      [] x.t = "str"    -> IF x.v \in DOMAIN IntOfStr
                           THEN Return(JInt(IntOfStr[x.v]))
                           ELSE Raise("ValueError")
      [] OTHER          -> Raise("TypeError")

\* try: n = int(x) if x else 0 / except (ValueError, TypeError): n = 0
SafeInt(x) ==
    IF ~Truthy(x) THEN JInt(0)
    ELSE LET c == ToInt(x) IN IF c.raised THEN JInt(0) ELSE c.val

----------------------------------------------------------------------------
(* NodeAPIClient.get_node_status *)

\* MUTANT of get_node_status: only a failed GET makes the node not running
get_node_status_trusting_body(node_id, out) ==
    IF ~HasConfig(node_id)
    THEN Return(NodeStatus(node_id, FALSE, 0, JInt(0), JStr("invalid_node_id")))
    ELSE LET r == safe_api_call(BaseUrl(node_id) \o "/health", out)
         IN  IF r.raised THEN r
             ELSE IF "error" \in DOMAIN r.val /\ "message" \in DOMAIN r.val
             THEN Return(NodeStatus(node_id, FALSE, HttpPort(node_id), JInt(0),
                                    r.val["error"]))
             ELSE Return(NodeStatus(node_id, TRUE, HttpPort(node_id),
                                    Get(r.val, "_response_time_ms", JInt(0)), JNull))

get_node_status(node_id, out) ==
    IF ~HasConfig(node_id)
    THEN Return(NodeStatus(node_id, FALSE, 0, JInt(0), JStr("invalid_node_id")))
    ELSE LET r == safe_api_call(BaseUrl(node_id) \o "/health", out)
         IN  IF r.raised THEN r
             ELSE IF "error" \in DOMAIN r.val
             THEN Return(NodeStatus(node_id, FALSE, HttpPort(node_id), JInt(0),
                                    r.val["error"]))
             ELSE Return(NodeStatus(node_id, TRUE, HttpPort(node_id),
                                    Get(r.val, "_response_time_ms", JInt(0)), JNull))

----------------------------------------------------------------------------
(* NodeAPIClient.get_builders_status *)

BuilderInfo(d) ==
    [cls |-> "BuilderInfo",
     builder_id |-> Get(d, "builder_id", JStr("unknown")),
     status |-> Get(d, "status", JStr("unknown")),
     active_sessions |-> Get(d, "active_sessions", JInt(0)),
     completed_matches |-> Get(d, "completed_matches", JInt(0)),
     total_bids_received |-> Get(d, "total_bids_received", JInt(0)),
     last_activity |-> Get(d, "last_activity", JInt(0))]

\* the dict elements a loop over data meets
DictsIn(data) ==
    LET it == Iterate(data)
    IN  IF it.raised THEN {}
        ELSE {it.val[i].v : i \in {k \in 1..Len(it.val) : it.val[k].t = "dict"}}

\* 'for x_data in data: out.append(extract(x_data))' where the extraction
\* calls x_data.get: TypeError when data is not iterable, AttributeError at
\* the first element that is not a dict.  Extract maps each dict element to
\* what its extraction gives
ExtractEach(data, Extract) ==
    LET it == Iterate(data)
    IN  IF it.raised THEN it
        ELSE IF \E i \in 1..Len(it.val) : it.val[i].t # "dict"
        THEN Raise("AttributeError")
        ELSE LET each == [i \in 1..Len(it.val) |-> Extract[it.val[i].v]]
             IN  IF \E i \in 1..Len(it.val) : each[i].raised
                 THEN each[CHOOSE i \in 1..Len(it.val) :
                             each[i].raised /\ \A j \in 1..(i-1) : ~each[j].raised]
                 ELSE Return([i \in 1..Len(it.val) |-> each[i].val])

BuilderOf(d) == Return(BuilderInfo(d))

\* MUTANT of BuildersOnError: demonstration records are substituted, as the
\* agents getter does
BuildersOnErrorDemo(err) ==
    Return(BuildersStatusResponse(
        <<BuilderInfo([builder_id |-> JStr("builder-auto-001")])>>, JNull))

\* the 'if "error" in result' branch of get_builders_status
BuildersOnError(err) == Return(BuildersStatusResponse(<<>>, err))

get_builders_status(node_id, out) ==
    IF ~HasConfig(node_id) \/ NodeType(node_id) # "BLOCK_BUILDER"
    THEN Return(BuildersStatusResponse(<<>>, JStr("invalid_builder_node")))
    ELSE LET r == safe_api_call(
                    BaseUrl(node_id) \o "/pinai_intent/execution/builders/status", out)
         IN  IF r.raised THEN r
             ELSE IF "error" \in DOMAIN r.val THEN BuildersOnError(r.val["error"])
             ELSE LET data == Get(r.val, "builders", JList(<<>>))
                      b == ExtractEach(data, [d \in DictsIn(data) |-> BuilderOf(d)])
                  IN  IF b.raised THEN b
                      ELSE Return(BuildersStatusResponse(b.val, JNull))

----------------------------------------------------------------------------
(* Demonstration data: time.time() and the random module *)

\* int(time.time()) when the demonstration data is built
Now == 1700000000

\* the draws of the random module: the low end or the high end of the range
Picks == {0, 1}
RandInt(a, b, pick) == IF pick = 0 THEN a ELSE b

Digit(n) ==
    CASE n = 0 -> "0" [] n = 1 -> "1" [] n = 2 -> "2" [] n = 3 -> "3"
      [] n = 4 -> "4" [] n = 5 -> "5" [] n = 6 -> "6" [] n = 7 -> "7"
      [] n = 8 -> "8" [] n = 9 -> "9"

\* str(n) for 0 <= n < 100
IntText(n) == IF n < 10 THEN Digit(n) ELSE Digit(n \div 10) \o Digit(n % 10)

\* f"{n:03d}" for 0 <= n < 100
Pad3(n) == "0" \o Digit(n \div 10) \o Digit(n % 10)

Min(a, b) == IF a < b THEN a ELSE b

----------------------------------------------------------------------------
(* NodeAPIClient.get_agents_status *)

\* MUTANT of AgentInfo: total_bids_submitted is tried before processedIntents
AgentInfoSnakeFirst(d) ==
    [cls |-> "AgentInfo",
     agent_id |-> Get(d, "agentId", Get(d, "agent_id", JStr("unknown"))),
     agent_type |-> Get(d, "agentType", Get(d, "agent_type", JStr("unknown"))),
     status |-> Get(d, "status", JStr("unknown")),
     total_bids_submitted |->
        SafeInt(Get(d, "total_bids_submitted", Get(d, "processedIntents", JStr("0")))),
     successful_bids |->
        SafeInt(Get(d, "successfulBids", Get(d, "successful_bids", JStr("0")))),
     total_earnings |-> Get(d, "totalEarnings", Get(d, "total_earnings", JStr("0.0"))),
     last_activity |->
        SafeInt(Get(d, "lastActivity", Get(d, "last_activity", JStr("0"))))]

AgentInfo(d) ==
    [cls |-> "AgentInfo",
     agent_id |-> Get(d, "agentId", Get(d, "agent_id", JStr("unknown"))),
     agent_type |-> Get(d, "agentType", Get(d, "agent_type", JStr("unknown"))),
     status |-> Get(d, "status", JStr("unknown")),
     total_bids_submitted |->
        SafeInt(Get(d, "processedIntents", Get(d, "total_bids_submitted", JStr("0")))),
     successful_bids |->
        SafeInt(Get(d, "successfulBids", Get(d, "successful_bids", JStr("0")))),
     total_earnings |-> Get(d, "totalEarnings", Get(d, "total_earnings", JStr("0.0"))),
     last_activity |->
        SafeInt(Get(d, "lastActivity", Get(d, "last_activity", JStr("0"))))]

AgentOf(d) == Return(AgentInfo(d))

\* the demonstration agents built when the call failed
DemoAgents(node_id, pick) ==
    IF node_id = 2
    THEN <<JDict([agent_id |-> JStr("trading-agent-auto-001"),
                  agent_type |-> JStr("trading"),
                  status |-> JStr("active"),
                  total_bids_submitted |-> JInt(RandInt(10, 30, pick)),
                  successful_bids |-> JInt(RandInt(5, 15, pick)),
                  total_earnings |-> JStr(IF pick = 0 THEN "50.00" ELSE "200.00"),
                  last_activity |-> JInt(Now - RandInt(10, 120, pick))])>>
    ELSE IF node_id = 3
    THEN <<JDict([agent_id |-> JStr("data-agent-auto-002"),
                  agent_type |-> JStr("data_access"),
                  status |-> JStr("active"),
                  total_bids_submitted |-> JInt(RandInt(8, 25, pick)),
                  successful_bids |-> JInt(RandInt(4, 12, pick)),
                  total_earnings |-> JStr(IF pick = 0 THEN "30.00" ELSE "150.00"),
                  last_activity |-> JInt(Now - RandInt(5, 90, pick))])>>
    ELSE <<>>

get_agents_status(node_id, out, pick) ==
    IF ~HasConfig(node_id) \/ NodeType(node_id) # "SERVICE_AGENT"
    THEN Return(AgentsStatusResponse(<<>>, JStr("invalid_agent_node")))
    ELSE LET r == safe_api_call(
                    BaseUrl(node_id) \o "/pinai_intent/execution/agents/status", out)
         IN  IF r.raised THEN r
             ELSE LET result == IF "error" \in DOMAIN r.val
                                THEN [agents |-> JList(DemoAgents(node_id, pick))]
                                ELSE r.val
                      data == Get(result, "agents", JList(<<>>))
                      a == ExtractEach(data, [d \in DictsIn(data) |-> AgentOf(d)])
                  IN  IF a.raised THEN a
                      ELSE Return(AgentsStatusResponse(a.val, JNull))

----------------------------------------------------------------------------
(* NodeAPIClient.get_execution_metrics *)

ExecutionMetrics(ti, ai, tb, ab, cm, sr, art, peers, sent, recv, err) ==
    [cls |-> "ExecutionMetrics",
     total_intents |-> ti, active_intents |-> ai, total_bids |-> tb,
     active_bids |-> ab, completed_matches |-> cm, success_rate |-> sr,
     avg_response_time_ms |-> art, p2p_peers_connected |-> peers,
     network_messages_sent |-> sent, network_messages_received |-> recv,
     error |-> err]

\* MUTANT of EmptyMetrics: the error is attached to populated counters
EmptyMetricsPopulated(err) ==
    ExecutionMetrics(JInt(10), JInt(2), JInt(15), JInt(3), JInt(5), JFloat(850),
                     JInt(120), JInt(3), JInt(100), JInt(120), err)

\* ExecutionMetrics(error=...): every other field keeps its dataclass default
EmptyMetrics(err) ==
    ExecutionMetrics(JInt(0), JInt(0), JInt(0), JInt(0), JInt(0), JFloat(0),
                     JInt(0), JInt(0), JInt(0), JInt(0), err)

\* MUTANT of DemoMetrics: the demonstration metrics are flagged as an error
DemoMetricsFlagged(pick) ==
    ExecutionMetrics(
        JInt(RandInt(10, 50, pick)), JInt(RandInt(2, 8, pick)),
        JInt(RandInt(15, 75, pick)), JInt(RandInt(3, 12, pick)),
        JInt(RandInt(5, 25, pick)),
        JFloat(RandInt(850, 980, pick)),
        JFloat(RandInt(500000, 2000000, pick)),
        JInt(RandInt(3, 7, pick)), JInt(RandInt(100, 500, pick)),
        JInt(RandInt(120, 480, pick)), JStr("demo"))

\* the demonstration metrics built when the call failed
DemoMetrics(pick) ==
    ExecutionMetrics(
        JInt(RandInt(10, 50, pick)), JInt(RandInt(2, 8, pick)),
        JInt(RandInt(15, 75, pick)), JInt(RandInt(3, 12, pick)),
        JInt(RandInt(5, 25, pick)),
        JFloat(RandInt(850, 980, pick)),
        JFloat(RandInt(500000, 2000000, pick)),
        JInt(RandInt(3, 7, pick)), JInt(RandInt(100, 500, pick)),
        JInt(RandInt(120, 480, pick)), JNull)

get_execution_metrics(node_id, out, pick) ==
    IF ~HasConfig(node_id)
    THEN Return(EmptyMetrics(JStr("invalid_node_id")))
    ELSE LET r == safe_api_call(
                    BaseUrl(node_id) \o "/pinai_intent/execution/metrics", out)
         IN  IF r.raised THEN r
             ELSE IF "error" \in DOMAIN r.val THEN Return(DemoMetrics(pick))
             ELSE Return(ExecutionMetrics(
                    Get(r.val, "total_intents", JInt(0)),
                    Get(r.val, "active_intents", JInt(0)),
                    Get(r.val, "total_bids", JInt(0)),
                    Get(r.val, "active_bids", JInt(0)),
                    Get(r.val, "completed_matches", JInt(0)),
                    Get(r.val, "success_rate", JFloat(0)),
                    Get(r.val, "avg_response_time_ms", JInt(0)),
                    Get(r.val, "p2p_peers_connected", JInt(0)),
                    Get(r.val, "network_messages_sent", JInt(0)),
                    Get(r.val, "network_messages_received", JInt(0)),
                    JNull))

----------------------------------------------------------------------------
(* safe_extract_intent_data and NodeAPIClient.get_intent_list *)

IntentInfo(d) ==
    [cls |-> "IntentInfo",
     intent_id |-> Get(d, "id", Get(d, "intent_id", JStr("unknown"))),
     intent_type |-> Get(d, "type", Get(d, "intent_type", JStr("unspecified"))),
     status |-> Get(d, "status", JStr("unknown")),
     sender_id |-> Get(d, "senderId",
                       Get(d, "sender_id", Get(d, "sender", JStr("unknown")))),
     created_at |-> SafeInt(Get(d, "timestamp", Get(d, "created_at", JStr("0")))),
     broadcast_count |-> Get(d, "broadcast_count", JInt(1)),
     bid_count |-> Get(d, "bid_count", JInt(0))]

safe_extract_intent_data(d) == Return(IntentInfo(d))

\* MUTANT of IntentEndpoints: intent/list is tried first
IntentEndpointsListFirst(node_id, limit) ==
    <<BaseUrl(node_id) \o "/pinai_intent/intent/list?limit=" \o IntText(limit),
      BaseUrl(node_id) \o "/pinai_intent/intent/query?limit=" \o IntText(limit),
      BaseUrl(node_id) \o "/pinai_intent/intents?limit=" \o IntText(limit)>>

\* the three endpoints get_intent_list tries, in order
IntentEndpoints(node_id, limit) ==
    <<BaseUrl(node_id) \o "/pinai_intent/intent/query?limit=" \o IntText(limit),
      BaseUrl(node_id) \o "/pinai_intent/intents?limit=" \o IntText(limit),
      BaseUrl(node_id) \o "/pinai_intent/intent/list?limit=" \o IntText(limit)>>

\* the for/else loop over the endpoints from the i-th on: outs[i] is what the
\* i-th GET does if it is issued; calls counts the GETs issued
RECURSIVE QueryIntents(_, _, _)
QueryIntents(urls, outs, i) ==
    IF i > Len(urls)
    THEN [raised |-> FALSE, found |-> FALSE, val |-> EmptyDict, calls |-> i - 1,
          asked |-> <<>>]
    ELSE LET r == safe_api_call(urls[i], outs[i])
         IN  IF r.raised
             THEN [raised |-> TRUE, found |-> FALSE, val |-> r.val, calls |-> i,
                   asked |-> <<urls[i]>>]
             ELSE IF "error" \notin DOMAIN r.val /\ Truthy(JDict(r.val))
             THEN [raised |-> FALSE, found |-> TRUE, val |-> r.val, calls |-> i,
                   asked |-> <<urls[i]>>]
             ELSE LET rest == QueryIntents(urls, outs, i + 1)
                  IN  [rest EXCEPT !.asked = <<urls[i]>> \o @]

IntentTypeNames == <<"trade", "swap", "exchange", "data_access">>

\* MUTANT of DummyIntents: as many dummy intents as the limit asks for
DummyIntentsUpToLimit(node_id, limit) ==
    [k \in 1..limit |->
        JDict([intent_id |-> JStr("intent_" \o IntText(node_id) \o "_" \o Pad3(k)),
               intent_type |-> JStr(IntentTypeNames[((k - 1) % 4) + 1]),
               status |-> JStr("INTENT_STATUS_BROADCASTED"),
               sender_id |-> JStr("auto-publisher"),
               created_at |-> JInt(Now - ((k - 1) * 30)),
               broadcast_count |-> JInt(k),
               bid_count |-> JInt((k - 1) % 3)])]

\* the dummy intents built when no endpoint answered
DummyIntents(node_id, limit) ==
    [k \in 1..Min(5, limit) |->
        JDict([intent_id |-> JStr("intent_" \o IntText(node_id) \o "_" \o Pad3(k)),
               intent_type |-> JStr(IntentTypeNames[((k - 1) % 4) + 1]),
               status |-> JStr("INTENT_STATUS_BROADCASTED"),
               sender_id |-> JStr("auto-publisher"),
               created_at |-> JInt(Now - ((k - 1) * 30)),
               broadcast_count |-> JInt(k),
               bid_count |-> JInt((k - 1) % 3)])]

get_intent_list(node_id, limit, outs) ==
    IF ~HasConfig(node_id)
    THEN Return(IntentListResponse(<<>>, JStr("invalid_node_id")))
    ELSE LET q == QueryIntents(IntentEndpoints(node_id, limit), outs, 1)
         IN  IF q.raised THEN Raise(q.val)
             ELSE LET result == IF q.found THEN q.val
                                ELSE [intents |-> JList(DummyIntents(node_id, limit))]
                      data == Get(result, "intents", JList(<<>>))
                      i == ExtractEach(data, [d \in DictsIn(data) |->
                                                safe_extract_intent_data(d)])
                  IN  IF i.raised THEN i
                      ELSE Return(IntentListResponse(i.val, JNull))

----------------------------------------------------------------------------
(* safe_extract_match_data and NodeAPIClient.get_match_history *)

\* hi * 10^6 + lo as a Python int: a JInt below 2 * 10^9, a JBig from there on
PyInt(hi, lo) ==
    IF hi < 2000 THEN JInt(hi * 1000000 + lo) ELSE JBig(hi, lo)

\* MUTANT of NormalizeMatchedAt: values above 10^9 are taken for milliseconds
NormalizeMatchedAtAboveSeconds(ts) ==
    LET n == SafeInt(ts)
        hi == IF n.t = "bigint" THEN n.v[1] ELSE n.v \div 1000000
        lo == IF n.t = "bigint" THEN n.v[2] ELSE n.v % 1000000
    IN  IF hi > 1000 \/ (hi = 1000 /\ lo > 0)
        THEN PyInt(hi \div 1000, (hi % 1000) * 1000 + (lo \div 1000))
        ELSE n

\* the matched_at conversion: int(timestamp) if timestamp else 0, divided by
\* 1000 when above 10^12, and 0 when int() raises ValueError or TypeError
NormalizeMatchedAt(ts) ==
    LET n == SafeInt(ts)
    IN  IF n.t = "bigint"
           /\ (n.v[1] > 1000000 \/ (n.v[1] = 1000000 /\ n.v[2] > 0))
        THEN PyInt(n.v[1] \div 1000, (n.v[1] % 1000) * 1000 + (n.v[2] \div 1000))
        ELSE n

\* f"match_{match_data.get('intentId', 'unknown')[:8]}": evaluated whether or
\* not match_id is present; slicing raises TypeError unless the value is a
\* str or a list
DefaultMatchId(d) ==
    LET iid == Get(d, "intentId", JStr("unknown"))
    IN  CASE iid.t = "str" ->
                Return(JStr("match_" \o SubSeq(iid.v, 1, Min(8, Len(iid.v)))))
          [] iid.t = "list" -> Return(JStr("match_[]"))
          [] OTHER -> Raise("TypeError")

MatchResult(d, default_id) ==
    [cls |-> "MatchResult",
     match_id |-> Get(d, "match_id", default_id),
     intent_id |-> Get(d, "intentId", Get(d, "intent_id", JStr("unknown"))),
     winning_agent_id |-> Get(d, "winningAgent",
                              Get(d, "winning_agent_id",
                                  Get(d, "winner", JStr("unknown")))),
     winning_bid_amount |-> Get(d, "winningBid",
                                Get(d, "winning_bid_amount",
                                    Get(d, "bid_amount", JStr("0.0")))),
     total_bids |-> SafeInt(Get(d, "totalBids",
                                Get(d, "total_bids_received",
                                    Get(d, "total_bids", JStr("0"))))),
     match_algorithm |-> Get(d, "algorithm",
                             Get(d, "matching_algorithm", JStr("unknown"))),
     matched_at |-> NormalizeMatchedAt(
                        Get(d, "matchedAt",
                            Get(d, "matched_at", Get(d, "timestamp", JStr("0"))))),
     status |-> Get(d, "status", JStr("unknown"))]

safe_extract_match_data(d) ==
    LET id == DefaultMatchId(d)
    IN  IF id.raised THEN id ELSE Return(MatchResult(d, id.val))

WinnerNames == <<"trading-agent-auto-001", "data-agent-auto-002">>

\* the demonstration matches built when the call failed
DemoMatches(limit, pick) ==
    [k \in 1..Min(8, limit) |->
        JDict([match_id |-> JStr("match_" \o Pad3(k)),
               intent_id |-> JStr("intent_1_" \o Pad3(k + 9)),
               winning_agent_id |-> JStr(WinnerNames[((k - 1) % 2) + 1]),
               winning_bid_amount |-> JStr(IF pick = 0 THEN "10.00" ELSE "50.00"),
               total_bids_received |-> JInt(RandInt(2, 5, pick)),
               matching_algorithm |-> JStr("highest_bid"),
               matched_at |-> JInt(Now - ((k - 1) * 60)),
               status |-> JStr("completed")])]

get_match_history(node_id, limit, out, pick) ==
    IF ~HasConfig(node_id) \/ NodeType(node_id) # "BLOCK_BUILDER"
    THEN Return(MatchHistoryResponse(<<>>, JStr("invalid_builder_node")))
    ELSE LET r == safe_api_call(
                    BaseUrl(node_id) \o "/pinai_intent/execution/matches/history?limit="
                        \o IntText(limit), out)
         IN  IF r.raised THEN r
             ELSE LET result == IF "error" \in DOMAIN r.val
                                THEN [matches |-> JList(DemoMatches(limit, pick))]
                                ELSE r.val
                      data == Get(result, "matches", JList(<<>>))
                      m == ExtractEach(data, [d \in DictsIn(data) |->
                                                safe_extract_match_data(d)])
                  IN  IF m.raised THEN m
                      ELSE Return(MatchHistoryResponse(m.val, JNull))

----------------------------------------------------------------------------
(* Response bodies the nodes can send (decoded JSON objects) *)

HealthBodies ==
    {JDict([status |-> JStr("ok")]),
     JDict([status |-> JStr("ok"), error |-> JNull]),
     JDict([error |-> JStr("degraded")]),
     JDict(EmptyDict)}

BuilderPayload ==
    JDict([builder_id |-> JStr("builder-001"), status |-> JStr("active"),
           active_sessions |-> JInt(2), completed_matches |-> JInt(7),
           total_bids_received |-> JInt(12), last_activity |-> JInt(Now)])

BuildersBodies ==
    {JDict([builders |-> JList(<<BuilderPayload>>)]),
     JDict([builders |-> JList(<<>>)]),
     JDict([builders |-> JNull]),
     JDict([builders |-> JList(<<JInt(3)>>)]),
     JDict([error |-> JStr("degraded")]),
     JDict(EmptyDict)}

AgentPayload ==
    JDict([agentId |-> JStr("agent-7"), agentType |-> JStr("trading"),
           status |-> JStr("active"), processedIntents |-> JStr("12"),
           successfulBids |-> JInt(3), totalEarnings |-> JStr("17.50"),
           lastActivity |-> JInt(Now)])

AgentsBodies ==
    {JDict([agents |-> JList(<<AgentPayload>>)]),
     JDict([agents |-> JList(<<JDict([agent_id |-> JStr("agent-8"),
                                     total_bids_submitted |-> JStr("many"),
                                     successful_bids |-> JNull])>>)]),
     JDict([agents |-> JNull]),
     JDict([error |-> JStr("degraded")]),
     JDict(EmptyDict)}

MetricsBodies ==
    {JDict([total_intents |-> JInt(10), active_intents |-> JInt(2),
            total_bids |-> JInt(30), active_bids |-> JInt(4),
            completed_matches |-> JInt(6), success_rate |-> JFloat(900),
            avg_response_time_ms |-> JInt(120), p2p_peers_connected |-> JInt(3),
            network_messages_sent |-> JInt(40),
            network_messages_received |-> JInt(50)]),
     JDict([total_intents |-> JInt(20), success_rate |-> JFloat(500)]),
     JDict([error |-> JStr("degraded")]),
     JDict(EmptyDict)}

IntentPayload ==
    JDict([id |-> JStr("intent-a"), type |-> JStr("trade"),
           status |-> JStr("BROADCASTED"), senderId |-> JStr("pub-1"),
           timestamp |-> JInt(Now), broadcast_count |-> JInt(2)])

IntentsBodies ==
    {JDict([intents |-> JList(<<IntentPayload>>)]),
     JDict([intents |-> JNull]),
     JDict([error |-> JStr("degraded")]),
     JDict(EmptyDict)}

MatchPayload ==
    JDict([match_id |-> JStr("match_001"), intentId |-> JStr("intent-abcdef"),
           winningAgent |-> JStr("agent-7"), winningBid |-> JStr("125.75"),
           totalBids |-> JInt(5), algorithm |-> JStr("highest_bid"),
           matchedAt |-> JBig(1700000, 123456), status |-> JStr("completed")])

MatchesBodies ==
    {JDict([matches |-> JList(<<MatchPayload>>)]),
     JDict([matches |-> JList(<<JDict([intentId |-> JInt(5)])>>)]),
     JDict([matches |-> JNull]),
     JDict([error |-> JStr("degraded")]),
     JDict(EmptyDict)}

\* the 200 bodies of an endpoint
BodiesOf(endpoint) ==
    CASE endpoint = "health"   -> HealthBodies
      [] endpoint = "agents"   -> AgentsBodies
      [] endpoint = "builders" -> BuildersBodies
      [] endpoint = "metrics"  -> MetricsBodies
      [] endpoint = "intents"  -> IntentsBodies
      [] endpoint = "matches"  -> MatchesBodies

\* the result-list limits the getters are called with (the default is 10)
Limits == {3, 10}
RequestedIds == 0..MaxRequestedId

----------------------------------------------------------------------------
(* DashboardMetrics and the state a display session starts in *)

\* the dataclass with its delta fields at their default
DashboardMetrics(nodes, intents, bids, matches, rate, time, peers) ==
    [cls |-> "DashboardMetrics",
     active_nodes |-> nodes, total_intents |-> intents, active_bids |-> bids,
     completed_matches |-> matches, success_rate |-> rate,
     avg_response_time |-> time, p2p_peers |-> peers,
     delta_nodes |-> JInt(0), delta_intents |-> JInt(0),
     delta_bids |-> JInt(0), delta_matches |-> JInt(0)]

\* DashboardMetrics(): every field at its default
create_empty_dashboard_metrics ==
    DashboardMetrics(JInt(0), JInt(0), JInt(0), JInt(0), JFloat(0), JInt(0), JInt(0))

\* no aggregation has been asked for
NoAggregate == [bucket |-> <<>>, called |-> FALSE, ret |-> Return(JNull)]

\* st.session_state after initialize_session_state, before the first cycle.
\* cycles counts the cycles that computed a DashboardMetrics, outcome tells how
\* the latest cycle ended, data is its snapshot, dashboard_metrics what the
\* latest completed cycle computed and before the counters computed by the
\* completed cycle before that one
\* the four counters the deltas are computed for
Counters(m) ==
    [active_nodes |-> m.active_nodes, total_intents |-> m.total_intents,
     active_bids |-> m.active_bids, completed_matches |-> m.completed_matches]

NewSession ==
    [cycles |-> 0,
     outcome |-> "none",
     data |-> <<>>,
     dashboard_metrics |-> create_empty_dashboard_metrics,
     previous_metrics |-> create_empty_dashboard_metrics,
     before |-> Counters(create_empty_dashboard_metrics)]

\* the four histories a DataCache keeps
Histories == {"metrics", "intents", "matches", "agents"}

\* DataCache(max_size): four empty histories.  added is not a field of the
\* object: it records, per history, every entry handed to the add_ methods
\* since construction or the last clear(), in the order they were handed over
DataCache(max_size) ==
    [constructed |-> TRUE,
     max_size |-> max_size,
     history |-> [h \in Histories |-> <<>>],
     added |-> [h \in Histories |-> <<>>]]

\* no DataCache has been constructed
NoCache == [DataCache(0) EXCEPT !.constructed = FALSE]

\* no normalizer has been invoked
NoNormalize ==
    [fn |-> "none", field |-> "none", setting |-> <<>>, arg |-> <<>>,
     called |-> FALSE, ret |-> [raised |-> FALSE, val |-> <<>>]]

----------------------------------------------------------------------------
(* One invocation of safe_api_call or of a getter *)

NoCall ==
    [fn |-> "none", node_id |-> 0, limit |-> 10, pick |-> 0, outs |-> <<>>,
     called |-> FALSE, gets |-> 0, asked |-> <<>>, ret |-> Return(JNull)]

Invocation(fn, id, limit, pick, outs) ==
    [fn |-> fn, node_id |-> id, limit |-> limit, pick |-> pick, outs |-> outs,
     called |-> FALSE, gets |-> 0, asked |-> <<>>, ret |-> Return(JNull)]

\* the GET gave a usable object: no exception and no "error" key
Usable(out) ==
    LET r == TryGet("", out) IN ~r.raised /\ "error" \notin DOMAIN r.val

\* what the three intent endpoints do; a GET that is never issued (an earlier
\* endpoint answered) has no outcome of its own and is written as refused
IntentOutcomeSeqs ==
    {o \in [1..3 -> {g \in GetOutcomes(IntentsBodies) : g.rt = 0}] :
        \A i \in 2..3 : (\E j \in 1..(i - 1) : Usable(o[j])) => o[i] = Fault("ConnectError")}

Invocations ==
    {Invocation("safe_api_call", 1, 10, 0, <<o>>) :
        o \in GetOutcomes(HealthBodies \cup MetricsBodies)}
    \cup {Invocation("get_node_status", id, 10, 0, <<o>>) :
        id \in RequestedIds, o \in GetOutcomes(HealthBodies)}
    \cup {Invocation("get_agents_status", id, 10, p, <<o>>) :
        id \in RequestedIds, p \in Picks, o \in GetOutcomes(AgentsBodies)}
    \cup {Invocation("get_builders_status", id, 10, 0, <<o>>) :
        id \in RequestedIds, o \in GetOutcomes(BuildersBodies)}
    \cup {Invocation("get_execution_metrics", id, 10, p, <<o>>) :
        id \in RequestedIds, p \in Picks, o \in GetOutcomes(MetricsBodies)}
    \cup {Invocation("get_intent_list", id, l, 0, o) :
        id \in RequestedIds, l \in Limits, o \in IntentOutcomeSeqs}
    \cup {Invocation("get_match_history", id, l, p, <<o>>) :
        id \in RequestedIds, l \in Limits, p \in Picks, o \in GetOutcomes(MatchesBodies)}

\* how many GETs the call issues: none when the getter returns before its
\* safe_api_call, one per endpoint tried otherwise
GetsIssued(fn, id, limit, outs) ==
    CASE fn = "safe_api_call" -> 1
      [] fn \in {"get_node_status", "get_execution_metrics"} ->
            IF ~HasConfig(id) THEN 0 ELSE 1
      [] fn = "get_agents_status" ->
            IF ~HasConfig(id) \/ NodeType(id) # "SERVICE_AGENT" THEN 0 ELSE 1
      [] fn \in {"get_builders_status", "get_match_history"} ->
            IF ~HasConfig(id) \/ NodeType(id) # "BLOCK_BUILDER" THEN 0 ELSE 1
      [] fn = "get_intent_list" ->
            IF ~HasConfig(id) THEN 0
            ELSE QueryIntents(IntentEndpoints(id, limit), outs, 1).calls

\* the URLs get_intent_list asks, in the order it asks them
IntentUrlsAsked(fn, id, limit, outs) ==
    IF fn = "get_intent_list" /\ HasConfig(id)
    THEN QueryIntents(IntentEndpoints(id, limit), outs, 1).asked
    ELSE <<>>

Returns(fn, r) ==
    /\ call.fn = fn
    /\ ~call.called
    /\ call' = [call EXCEPT !.called = TRUE, !.ret = r,
                            !.gets = GetsIssued(fn, call.node_id, call.limit, call.outs),
                            !.asked = IntentUrlsAsked(fn, call.node_id, call.limit,
                                                      call.outs)]
    /\ UNCHANGED <<env, pc, results, timedOut, overtook, ret, agg, session, cache, norm>>

CallSafeApiCall ==
    Returns("safe_api_call",
            safe_api_call(BaseUrl(call.node_id) \o "/health", call.outs[1]))

CallGetNodeStatus ==
    Returns("get_node_status", get_node_status(call.node_id, call.outs[1]))

CallGetAgentsStatus ==
    Returns("get_agents_status",
            get_agents_status(call.node_id, call.outs[1], call.pick))

CallGetBuildersStatus ==
    Returns("get_builders_status", get_builders_status(call.node_id, call.outs[1]))

CallGetExecutionMetrics ==
    Returns("get_execution_metrics",
            get_execution_metrics(call.node_id, call.outs[1], call.pick))

CallGetIntentList ==
    Returns("get_intent_list", get_intent_list(call.node_id, call.limit, call.outs))

CallGetMatchHistory ==
    Returns("get_match_history",
            get_match_history(call.node_id, call.limit, call.outs[1], call.pick))

IdleCycle ==
    /\ env = [cond |-> [n \in NODE_IDS |-> "up"], pick |-> 0]
    /\ pc = "idle"
    /\ results = <<>>
    /\ timedOut = FALSE
    /\ overtook = FALSE
    /\ ret = Return(JNull)

InitGetter ==
    /\ call \in Invocations
    /\ IdleCycle
    /\ agg = NoAggregate
    /\ session = NewSession
    /\ cache = NoCache
    /\ norm = NoNormalize

NextGetter ==
    \/ CallSafeApiCall
    \/ CallGetNodeStatus
    \/ CallGetAgentsStatus
    \/ CallGetBuildersStatus
    \/ CallGetExecutionMetrics
    \/ CallGetIntentList
    \/ CallGetMatchHistory

SpecGetter == InitGetter /\ [][NextGetter]_vars

----------------------------------------------------------------------------
(* The nodes during one fetch cycle *)

\* a node answers every endpoint well, refuses connections, answers too late,
\* or answers 200 with bodies the getters cannot use
Conditions == {"up", "refused", "slow", "garbled"}

GoodBody(endpoint) ==
    CASE endpoint = "health"   -> JDict([status |-> JStr("ok")])
      [] endpoint = "agents"   -> JDict([agents |-> JList(<<AgentPayload>>)])
      [] endpoint = "builders" -> JDict([builders |-> JList(<<BuilderPayload>>)])
      [] endpoint = "metrics"  ->
            JDict([total_intents |-> JInt(10), active_intents |-> JInt(2),
                   total_bids |-> JInt(30), active_bids |-> JInt(4),
                   completed_matches |-> JInt(6), success_rate |-> JFloat(900),
                   avg_response_time_ms |-> JInt(120),
                   p2p_peers_connected |-> JInt(3),
                   network_messages_sent |-> JInt(40),
                   network_messages_received |-> JInt(50)])
      [] endpoint = "intents"  -> JDict([intents |-> JList(<<IntentPayload>>)])
      [] endpoint = "matches"  -> JDict([matches |-> JList(<<MatchPayload>>)])

GarbledBody(endpoint) ==
    CASE endpoint = "health"   -> JDict([status |-> JStr("ok")])
      [] endpoint = "agents"   -> JDict([agents |-> JNull])
      [] endpoint = "builders" -> JDict([builders |-> JNull])
      [] endpoint = "metrics"  -> Undecodable
      [] endpoint = "intents"  -> JDict([intents |-> JNull])
      [] endpoint = "matches"  -> JDict([matches |-> JList(<<JDict([intentId |-> JInt(5)])>>)])

\* what a GET of the endpoint does on a node in condition c
EndpointOutcome(c, endpoint) ==
    CASE c = "up"      -> Response(200, GoodBody(endpoint), MaxResponseTime)
      [] c = "refused" -> Fault("ConnectError")
      [] c = "slow"    -> Fault("TimeoutException")
      [] c = "garbled" -> Response(200, GarbledBody(endpoint), 0)

----------------------------------------------------------------------------
(* NodeAPIClient.fetch_all_data *)

Task(type, id) == [type |-> type, node_id |-> id]

\* the task list, in the order fetch_all_data builds it
Tasks ==
    <<Task("node_status", 1), Task("node_status", 2),
      Task("node_status", 3), Task("node_status", 4),
      Task("agents", 2), Task("agents", 3),
      Task("builders", 4),
      Task("metrics", 1), Task("metrics", 2), Task("metrics", 3), Task("metrics", 4),
      Task("intents", 1), Task("intents", 2), Task("intents", 3), Task("intents", 4),
      Task("matches", 4)>>

\* the endpoint the getter of a task queries
EndpointOf(type) == IF type = "node_status" THEN "health" ELSE type

\* the coroutine of a task, given what each of its GETs does and the draws p
RunTaskOn(task, out, p) ==
    LET id == task.node_id
    IN  CASE task.type = "node_status" -> get_node_status(id, out)
          [] task.type = "agents"      -> get_agents_status(id, out, p)
          [] task.type = "builders"    -> get_builders_status(id, out)
          [] task.type = "metrics"     -> get_execution_metrics(id, out, p)
          [] task.type = "intents"     -> get_intent_list(id, 10, [k \in 1..3 |-> out])
          [] task.type = "matches"     -> get_match_history(id, 10, out, p)

\* the coroutine of a task, run against a node in condition c with draws p
RunTask(task, c, p) == RunTaskOn(task, EndpointOutcome(c, EndpointOf(task.type)), p)

\* what each task of the list produces, per condition of its node and draws
TaskOutcomes ==
    [i \in 1..Len(Tasks) |->
        [c \in Conditions |-> [p \in Picks |-> RunTask(Tasks[i], c, p)]]]

\* what task i produces in the cycle's environment
TaskOutcome(i, e) == TaskOutcomes[i][e.cond[Tasks[i].node_id]][e.pick]

\* Python objects handled by the orchestrator
\* (kt is the type of the dict's keys: str, or int for node ids)
PyDict(d) == [cls |-> "dict", kt |-> "str", d |-> d]
PyIntDict(d) == [cls |-> "dict", kt |-> "int", d |-> d]
PyList(l) == [cls |-> "list", items |-> l]
PyException(e) == [cls |-> "Exception", exc |-> e]
Pending == [cls |-> "pending"]

\* MUTANT of GatherStore: the gather ends with the first awaitable that
\* finishes and the others are cancelled, so that the result list depends on
\* which awaitable finished first
GatherStoreFirstCompleted(res, i, x) ==
    [k \in 1..Len(res) |-> IF k = i THEN x ELSE PyException("CancelledError")]

\* asyncio.gather: the result of the i-th awaitable goes to position i
GatherStore(res, i, x) == [res EXCEPT ![i] = x]

\* MUTANT of GatherException: gather without return_exceptions
GatherExceptionPropagates(e) == Raise(e)

\* asyncio.gather(..., return_exceptions=True): an exception raised by an
\* awaitable becomes its result
GatherException(e) == Return(PyException(e))

\* the record substituted for every task when the overall deadline fires
TimeoutRecord ==
    PyDict([error |-> JStr("timeout"), message |-> JStr("Overall request timeout")])

\* the 'except asyncio.TimeoutError' branch: the whole result list is rebuilt
OnDeadline(res) == [i \in 1..Len(Tasks) |-> TimeoutRecord]

\* the record an exception result is converted to
ExceptionRecord(x, id) ==
    PyDict([error |-> JStr("exception"), message |-> JStr(x.exc), node_id |-> JInt(id)])

EmptyData ==
    [nodes |-> PyIntDict(<<>>), agents |-> PyIntDict(<<>>),
     builders |-> PyIntDict(<<>>), metrics |-> PyIntDict(<<>>),
     intents |-> PyIntDict(<<>>), matches |-> PyList(<<>>)]

\* data[bucket][node_id] = result
Store(data, bucket, id, result) ==
    [data EXCEPT ![bucket] = PyIntDict(SetItem(@.d, id, result))]

\* one iteration of the 'Organize results by type and node' loop
OrganizeOne(data, task, result0) ==
    LET result == IF result0.cls = "Exception"
                  THEN ExceptionRecord(result0, task.node_id)
                  ELSE result0
    IN  CASE task.type = "node_status" -> Store(data, "nodes", task.node_id, result)
          [] task.type = "agents"      -> Store(data, "agents", task.node_id, result)
          [] task.type = "builders"    -> [data EXCEPT !.builders = result]
          [] task.type = "metrics"     -> Store(data, "metrics", task.node_id, result)
          [] task.type = "intents"     -> Store(data, "intents", task.node_id, result)
          [] task.type = "matches"     ->
                [data EXCEPT !.matches =
                    IF result.cls = "MatchHistoryResponse"
                    THEN PyList(result.matches) ELSE PyList(<<>>)]

RECURSIVE Organize(_, _, _)
Organize(data, res, i) ==
    IF i > Len(Tasks) THEN data
    ELSE Organize(OrganizeOne(data, Tasks[i], res[i]), res, i + 1)

\* isinstance(result, dict) and result.get("error")
IsErrorDict(x) == x.cls = "dict" /\ Truthy(Get(x.d, "error", JNull))

\* MUTANT of FetchMetadata: every result is counted as successful
FetchMetadataCountingAll(res) ==
    [total_tasks |-> Len(Tasks),
     successful_tasks |-> Len(res),
     errors |-> SelectSeq(res, IsErrorDict)]

FetchMetadata(res) ==
    [total_tasks |-> Len(Tasks),
     successful_tasks |-> Cardinality({i \in 1..Len(res) : ~IsErrorDict(res[i])}),
     errors |-> SelectSeq(res, IsErrorDict)]

\* everything after the gather: bucket assembly and metadata
Assemble(res) == SetItem(Organize(EmptyData, res, 1), "_fetch_metadata", FetchMetadata(res))

----------------------------------------------------------------------------
(* One fetch cycle: the tasks complete in any order, or the deadline fires *)

Envs == [cond : [NODE_IDS -> Conditions], pick : Picks]

PendingTasks == {i \in 1..Len(results) : results[i].cls = "pending"}

Init ==
    /\ call = NoCall
    /\ env \in Envs
    /\ pc = "idle"
    /\ results = <<>>
    /\ timedOut = FALSE
    /\ overtook = FALSE
    /\ ret = Return(JNull)
    /\ agg = NoAggregate
    /\ session = NewSession
    /\ cache = NoCache
    /\ norm = NoNormalize

\* fetch_all_data builds the task list and starts the gather
Start ==
    /\ pc = "idle"
    /\ pc' = "gathering"
    /\ results' = [i \in 1..Len(Tasks) |-> Pending]
    /\ UNCHANGED <<call, env, timedOut, overtook, ret, agg, session, cache, norm>>

\* task i finishes: it returned a value or raised
Complete(i) ==
    /\ pc = "gathering"
    /\ i \in PendingTasks
    /\ \A j \in PendingTasks : i - j <= MaxOvertake
    /\ LET o == TaskOutcome(i, env)
           g == IF o.raised THEN GatherException(o.val) ELSE o
       IN  IF g.raised
           THEN /\ pc' = "done"
                /\ ret' = g
                /\ UNCHANGED results
           ELSE /\ results' = GatherStore(results, i, g.val)
                /\ UNCHANGED <<pc, ret>>
    /\ overtook' = (overtook \/ \E j \in PendingTasks : j < i)
    /\ UNCHANGED <<call, env, timedOut, agg, session, cache, norm>>

\* every task has finished: wait_for returns the gathered list
Finish ==
    /\ pc = "gathering"
    /\ PendingTasks = {}
    /\ pc' = "done"
    /\ ret' = Return(Assemble(results))
    /\ UNCHANGED <<call, env, results, timedOut, overtook, agg, session, cache, norm>>

\* the 12 s deadline fires while some task is still pending
Deadline ==
    /\ pc = "gathering"
    /\ PendingTasks # {}
    /\ timedOut' = TRUE
    /\ pc' = "done"
    /\ ret' = Return(Assemble(OnDeadline(results)))
    /\ UNCHANGED <<call, env, results, overtook, agg, session, cache, norm>>

Next ==
    \/ Start
    \/ \E i \in 1..Len(Tasks) : Complete(i)
    \/ Finish
    \/ Deadline

Spec == Init /\ [][Next]_vars

----------------------------------------------------------------------------
(* Python arithmetic on int and float (a float is held in thousandths) *)

IsNumber(x) == x.t \in {"int", "float"}

Thousandths(x) == IF x.t = "int" THEN x.v * 1000 ELSE x.v

\* a + b
PyAdd(a, b) ==
    IF a.t = "int" /\ b.t = "int" THEN JInt(a.v + b.v)
    ELSE JFloat(Thousandths(a) + Thousandths(b))

\* a - b
PySub(a, b) ==
    IF a.t = "int" /\ b.t = "int" THEN JInt(a.v - b.v)
    ELSE JFloat(Thousandths(a) - Thousandths(b))

\* sum(xs): starts from the int 0
RECURSIVE PySum(_)
PySum(xs) ==
    IF xs = <<>> THEN JInt(0)
    ELSE PyAdd(PySum(SubSeq(xs, 1, Len(xs) - 1)), xs[Len(xs)])

RECURSIVE Gcd(_, _)
Gcd(a, b) == IF b = 0 THEN a ELSE Gcd(b, a % b)

\* the float num / den as an exact fraction in lowest terms
JRatio(num, den) ==
    LET g == Gcd(den, num % den)
    IN  [t |-> "float", num |-> num \div g, den |-> den \div g]

\* a / n for a positive int n: true division, always a float
PyTrueDiv(a, n) == JRatio(Thousandths(a), 1000 * n)

\* a // n for a positive int n: floor division, an int for an int and a
\* whole float for a float
PyFloorDiv(a, n) ==
    IF a.t = "int" THEN JInt(a.v \div n)
    ELSE JFloat((a.v \div (1000 * n)) * 1000)

\* max(xs) of a non-empty sequence: the first of the greatest elements
PyMax(xs) ==
    xs[CHOOSE i \in 1..Len(xs) :
            /\ \A j \in 1..Len(xs) : Thousandths(xs[j]) <= Thousandths(xs[i])
            /\ \A j \in 1..(i - 1) : Thousandths(xs[j]) < Thousandths(xs[i])]

----------------------------------------------------------------------------
(* data_models.aggregate_execution_metrics *)

\* dict.values() of a dict keyed by node id, in the order fetch_all_data
\* inserts the nodes
RECURSIVE ValuesFrom(_, _)
ValuesFrom(d, k) ==
    IF k > MaxRequestedId THEN <<>>
    ELSE (IF k \in DOMAIN d THEN <<d[k]>> ELSE <<>>) \o ValuesFrom(d, k + 1)

Values(d) == ValuesFrom(d, 0)

\* isinstance(m, ExecutionMetrics) and m.error is None
IsValidMetrics(m) == m.cls = "ExecutionMetrics" /\ m.error = JNull

\* the fields of the records the aggregation does arithmetic on
AggregatedFields ==
    {"total_intents", "active_bids", "completed_matches", "success_rate",
     "avg_response_time_ms", "p2p_peers_connected"}

aggregate_execution_metrics(metrics_by_node) ==
    LET valid_metrics == SelectSeq(Values(metrics_by_node), IsValidMetrics)
        total_nodes == Len(valid_metrics)
        Column(f) == [i \in 1..total_nodes |-> valid_metrics[i][f]]
    IN  IF total_nodes = 0 THEN Return(create_empty_dashboard_metrics)
        ELSE IF \E i \in 1..total_nodes : \E f \in AggregatedFields :
                    ~IsNumber(valid_metrics[i][f])
        THEN \* sum() or max() over a str or None
             Raise("TypeError")
        ELSE Return(DashboardMetrics(
                JInt(0),
                PySum(Column("total_intents")),
                PySum(Column("active_bids")),
                PySum(Column("completed_matches")),
                PyTrueDiv(PySum(Column("success_rate")), total_nodes),
                PyFloorDiv(PySum(Column("avg_response_time_ms")), total_nodes),
                PyMax(Column("p2p_peers_connected"))))

\* the records a metrics bucket can hold: what get_execution_metrics returns
\* for a node that answers, for a node that fails and for an id outside the
\* registry, and the error dictionaries of fetch_all_data
\* a metrics body whose counters are JSON strings
TextMetricsBody ==
    JDict([total_intents |-> JStr("12"), active_bids |-> JStr("4"),
           completed_matches |-> JStr("6"), success_rate |-> JFloat(900),
           avg_response_time_ms |-> JInt(120), p2p_peers_connected |-> JInt(3)])

MetricsRecords ==
    {get_execution_metrics(1, Response(200, b, 0), 0).val :
        b \in {c \in MetricsBodies : "error" \notin DOMAIN c.v /\ c.v # EmptyDict}}
    \cup {get_execution_metrics(1, Response(200, TextMetricsBody, 0), 0).val,
          get_execution_metrics(1, Fault("ConnectError"), 1).val,
          get_execution_metrics(0, Fault("ConnectError"), 0).val,
          TimeoutRecord,
          ExceptionRecord(PyException("TypeError"), 1)}

MetricsBuckets ==
    UNION {[ids -> MetricsRecords] : ids \in SUBSET NODE_IDS}

AggregateBucket ==
    /\ ~agg.called
    /\ agg' = [agg EXCEPT !.called = TRUE,
                          !.ret = aggregate_execution_metrics(agg.bucket)]
    /\ UNCHANGED <<call, env, pc, results, timedOut, overtook, ret, session, cache, norm>>

InitAggregate ==
    /\ call = NoCall
    /\ IdleCycle
    /\ agg \in [bucket : MetricsBuckets, called : {FALSE}, ret : {Return(JNull)}]
    /\ session = NewSession
    /\ cache = NoCache
    /\ norm = NoNormalize

SpecAggregate == InitAggregate /\ [][AggregateBucket]_vars

----------------------------------------------------------------------------
(* main.process_dashboard_data and the cycles of a display session *)

\* what a node does during the cycles of a session: it answers well, refuses
\* connections, or answers well with metrics whose counters are strings
SessionConditions == {"up", "refused", "text"}

SessionOutcome(c, endpoint) ==
    IF c = "text"
    THEN Response(200, IF endpoint = "metrics" THEN TextMetricsBody
                       ELSE GoodBody(endpoint), 0)
    ELSE EndpointOutcome(c, endpoint)

\* the nodes and the draws of one cycle (one node with string counters is
\* enough to make the aggregation raise: it is node 1 when there is one)
SessionEnvs ==
    {e \in [cond : [NODE_IDS -> SessionConditions], pick : Picks] :
        \A n \in NODE_IDS \ {1} : e.cond[n] # "text"}

\* what each task of the list produces, per condition of its node and draws
SessionTaskOutcomes ==
    [i \in 1..Len(Tasks) |->
        [c \in SessionConditions |->
            [p \in Picks |->
                RunTaskOn(Tasks[i], SessionOutcome(c, EndpointOf(Tasks[i].type)), p)]]]

\* what the gather of fetch_all_data holds when every task has finished
Gathered(e) ==
    [i \in 1..Len(Tasks) |->
        LET o == SessionTaskOutcomes[i][e.cond[Tasks[i].node_id]][e.pick]
        IN  IF o.raised THEN GatherException(o.val).val ELSE o.val]

\* main.create_empty_data_response
create_empty_data_response == EmptyData

\* what main.fetch_all_data can hand to a cycle: a snapshot of
\* NodeAPIClient.fetch_all_data, gathered in full or cut by the deadline, or
\* the empty response when the fetching thread failed
Snapshots ==
    {Assemble(Gathered(e)) : e \in SessionEnvs}
    \cup {Assemble(OnDeadline(<<>>)), create_empty_data_response}

validate_api_data(data) ==
    {"nodes", "agents", "builders", "metrics", "intents", "matches"} \subseteq DOMAIN data

safe_extract_data(data, key, default_value) ==
    IF key \in DOMAIN data THEN data[key] ELSE default_value

\* MUTANT of ActiveNodeCount: every NodeStatus of the bucket is counted
ActiveNodeCountAnyStatus(nodes_data) ==
    IF nodes_data.cls # "dict" THEN 0
    ELSE Cardinality({n \in DOMAIN nodes_data.d :
            "is_running" \in DOMAIN nodes_data.d[n]})

\* the 'Count active nodes' loop; a fault in it gives 0
ActiveNodeCount(nodes_data) ==
    IF nodes_data.cls # "dict" THEN 0
    ELSE Cardinality({n \in DOMAIN nodes_data.d :
            LET node == nodes_data.d[n]
            IN  /\ "is_running" \in DOMAIN node
                /\ "error" \in DOMAIN node
                /\ node.is_running
                /\ ~Truthy(node.error)})

\* MUTANT of calculate_delta: a decrease is reported as no change
calculate_delta_clamped(current, previous) ==
    IF IsNumber(current) /\ IsNumber(previous)
    THEN IF Thousandths(current) < Thousandths(previous) THEN JInt(0)
         ELSE PySub(current, previous)
    ELSE JInt(0)

\* utils.calculate_delta: current - previous, 0 on a TypeError
calculate_delta(current, previous) ==
    IF IsNumber(current) /\ IsNumber(previous) THEN PySub(current, previous)
    ELSE JInt(0)

\* MUTANT of ReplacePrevious: the stored state is kept as it was
ReplacePreviousStale(previous, dashboard_metrics) == previous

\* 'Update previous metrics for next comparison'
ReplacePrevious(previous, dashboard_metrics) ==
    DashboardMetrics(dashboard_metrics.active_nodes, dashboard_metrics.total_intents,
                     dashboard_metrics.active_bids, dashboard_metrics.completed_matches,
                     JFloat(0), JInt(0), JInt(0))

\* the dashboard metrics of process_dashboard_data and what it leaves in
\* st.session_state.previous_metrics; raised when the aggregation raises
process_dashboard_data(data, previous) ==
    IF ~validate_api_data(data)
    THEN [raised |-> FALSE, dashboard_metrics |-> create_empty_dashboard_metrics,
          previous_metrics |-> previous]
    ELSE LET nodes_data == safe_extract_data(data, "nodes", PyIntDict(<<>>))
             metrics_data == safe_extract_data(data, "metrics", PyIntDict(<<>>))
             a == IF metrics_data.cls = "dict"
                  THEN aggregate_execution_metrics(metrics_data.d)
                  ELSE Raise("AttributeError")
         IN  IF a.raised
             THEN [raised |-> TRUE, dashboard_metrics |-> create_empty_dashboard_metrics,
                   previous_metrics |-> previous]
             ELSE LET counted == [a.val EXCEPT
                                    !.active_nodes = JInt(ActiveNodeCount(nodes_data))]
                      dashboard_metrics ==
                        [counted EXCEPT
                           !.delta_nodes =
                              calculate_delta(counted.active_nodes, previous.active_nodes),
                           !.delta_intents =
                              calculate_delta(counted.total_intents, previous.total_intents),
                           !.delta_bids =
                              calculate_delta(counted.active_bids, previous.active_bids),
                           !.delta_matches =
                              calculate_delta(counted.completed_matches,
                                              previous.completed_matches)]
                  IN  [raised |-> FALSE, dashboard_metrics |-> dashboard_metrics,
                       previous_metrics |-> ReplacePrevious(previous, dashboard_metrics)]

\* one run of render_dashboard: the snapshot is fetched and processed; when
\* the processing raises, the cycle ends in the error display and leaves the
\* session state as it was
RenderDashboard ==
    /\ session.cycles < MaxCycles
    /\ \E data \in Snapshots :
          LET r == process_dashboard_data(data, session.previous_metrics)
          IN  session' =
                IF r.raised
                THEN [session EXCEPT !.outcome = "raised", !.data = data]
                ELSE [cycles |-> session.cycles + 1,
                      outcome |-> "computed",
                      data |-> data,
                      dashboard_metrics |-> r.dashboard_metrics,
                      previous_metrics |-> r.previous_metrics,
                      before |-> Counters(session.dashboard_metrics)]
    /\ UNCHANGED <<call, env, pc, results, timedOut, overtook, ret, agg, cache, norm>>

InitSession ==
    /\ call = NoCall
    /\ IdleCycle
    /\ agg = NoAggregate
    /\ session = NewSession
    /\ cache = NoCache
    /\ norm = NoNormalize

SpecSession == InitSession /\ [][RenderDashboard]_vars

----------------------------------------------------------------------------
(* Properties of safe_api_call (checked under SpecGetter) *)

SafeCalled == call.fn = "safe_api_call" /\ call.called

\* the GET did not end in a 200 response carrying a JSON object
FailureOutcome(out) ==
    \/ out.kind # "response"
    \/ out.status # 200
    \/ out.body.t # "dict"

\* C1: safe_api_call never propagates an exception: whatever its GET does
\* (timeout, refused connection, non-200 status, 200 with an undecodable
\* body, 200 with a body that is no JSON object, any other fault) it returns
\* a dictionary, and after every failure that dictionary has an "error" key.
C1_SafeCallNeverRaises ==
    SafeCalled =>
        /\ ~call.ret.raised
        /\ FailureOutcome(call.outs[1]) => "error" \in DOMAIN call.ret.val

\* a 200 response whose decoded body is a list came back as an error record
C1_Witness ==
    /\ SafeCalled
    /\ call.outs[1].kind = "response"
    /\ call.outs[1].status = 200
    /\ call.outs[1].body.t = "list"
    /\ ~call.ret.raised
    /\ "error" \in DOMAIN call.ret.val

\* the error kind the claim assigns to each failing outcome
ClaimedKind(out) ==
    CASE out.kind = "TimeoutException" -> "timeout"
      [] out.kind = "ConnectError" -> "connection_failed"
      [] out.kind = "response" /\ out.status # 200 -> "http_error"
      [] out.kind = "response" /\ out.status = 200 /\ out.body.t = "undecodable" ->
            "invalid_json"
      [] OTHER -> "unknown"

\* C2: every failure is classified into exactly one kind of {timeout,
\* connection_failed, http_error, invalid_json, unknown}: a timeout gives
\* timeout, a refused connection connection_failed, a non-200 status
\* http_error with that status code, a 200 with an undecodable body
\* invalid_json, any other fault unknown; a 200 with a JSON object returns
\* that object with an integer _response_time_ms added.
C2_FailureClassification ==
    SafeCalled =>
        LET out == call.outs[1]
            d == call.ret.val
        IN  /\ ~call.ret.raised
            /\ FailureOutcome(out) =>
                /\ "error" \in DOMAIN d
                /\ d["error"] = JStr(ClaimedKind(out))
                /\ ClaimedKind(out) = "http_error" =>
                      /\ "status_code" \in DOMAIN d
                      /\ d["status_code"] = JInt(out.status)
            /\ ~FailureOutcome(out) =>
                /\ DOMAIN d = DOMAIN out.body.v \cup {"_response_time_ms"}
                /\ d["_response_time_ms"] = JInt(out.rt)
                /\ \A k \in DOMAIN out.body.v : d[k] = out.body.v[k]

\* a refused connection was classified connection_failed
C2_Witness ==
    /\ SafeCalled
    /\ call.outs[1].kind = "ConnectError"
    /\ ~call.ret.raised
    /\ "error" \in DOMAIN call.ret.val
    /\ call.ret.val["error"] = JStr("connection_failed")

----------------------------------------------------------------------------
(* Properties of get_builders_status (checked under SpecGetter) *)

BuildersCalled == call.fn = "get_builders_status" /\ call.called

\* C10: when the builder-status call fails, get_builders_status returns an
\* empty builders collection with the error kind of the failed call and no
\* synthetic records, for every failure kind.
C10_BuildersFailureIsEmptyWithKind ==
    (BuildersCalled /\ call.node_id = 4 /\ FailureOutcome(call.outs[1])) =>
        /\ ~call.ret.raised
        /\ call.ret.val.cls = "BuildersStatusResponse"
        /\ call.ret.val.builders = <<>>
        /\ call.ret.val.error = JStr(ClaimedKind(call.outs[1]))

\* the builder-status call of node 4 timed out and the getter has returned
C10_Witness ==
    /\ BuildersCalled
    /\ call.node_id = 4
    /\ call.outs[1].kind = "TimeoutException"
    /\ ~call.ret.raised
    /\ call.ret.val.error = JStr("timeout")

----------------------------------------------------------------------------
(* Properties of the getters (checked under SpecGetter) *)

Getters ==
    {"get_node_status", "get_agents_status", "get_builders_status",
     "get_execution_metrics", "get_intent_list", "get_match_history"}

DemoGetters == {"get_agents_status", "get_intent_list", "get_match_history"}

\* the nodes of the registry by role, as the claims name them
RegistryNodes == {1, 2, 3, 4}
ServiceAgentNodes == {2, 3}
BlockBuilderNodes == {4}

\* the node can serve the capability the getter asks for
Serves(fn, id) ==
    CASE fn = "get_agents_status" -> id \in ServiceAgentNodes
      [] fn \in {"get_builders_status", "get_match_history"} -> id \in BlockBuilderNodes
      [] OTHER -> id \in RegistryNodes

GetterCalled == call.fn \in Getters /\ call.called

\* the GETs the getter looks at: all three for the intent list, else the one
OutsTried == IF call.fn = "get_intent_list" THEN {1, 2, 3} ELSE {1}

\* no GET gave a usable object: safe_api_call returned an error record
CallFailed == \A k \in OutsTried : ~Usable(call.outs[k])

\* the first GET that gave a usable object
AnsweringOut ==
    call.outs[CHOOSE k \in OutsTried :
                Usable(call.outs[k]) /\ \A j \in 1..(k - 1) : ~Usable(call.outs[j])]

ListField ==
    CASE call.fn = "get_agents_status" -> "agents"
      [] call.fn = "get_builders_status" -> "builders"
      [] call.fn = "get_intent_list" -> "intents"
      [] call.fn = "get_match_history" -> "matches"

\* the call answered with an object that has no list-of-records field
LacksListField == ~CallFailed /\ ListField \notin DOMAIN AnsweringOut.body.v

Records == call.ret.val[ListField]

\* the size of the demonstration dataset the code builds
DemoSize ==
    CASE call.fn = "get_agents_status" -> 1
      [] call.fn = "get_intent_list" -> Min(5, call.limit)
      [] call.fn = "get_match_history" -> Min(8, call.limit)

\* C11 (as stated): for the agents, matches and intents endpoints, whenever
\* the call failed or the response lacks the list-of-records field, the
\* getter returns a demonstration dataset with as many records as the
\* requested limit, never an empty collection.
C11_DemoSizedToLimit ==
    (GetterCalled /\ call.fn \in DemoGetters /\ Serves(call.fn, call.node_id)
        /\ (CallFailed \/ LacksListField)) =>
        /\ ~call.ret.raised
        /\ Records # <<>>
        /\ call.fn # "get_agents_status" => Len(Records) = call.limit

\* C11 (amended): when the call failed the demonstration dataset holds one
\* agent, min(5, limit) intents or min(8, limit) matches; when the call
\* answered with an object lacking the list-of-records field the getter
\* returns an empty collection.
C11_DemoSizeIsCapped ==
    (GetterCalled /\ call.fn \in DemoGetters /\ Serves(call.fn, call.node_id)) =>
        /\ CallFailed => (~call.ret.raised /\ Len(Records) = DemoSize)
        /\ LacksListField => (~call.ret.raised /\ Records = <<>>)

\* all three intent endpoints failed for a limit of 10 and five dummy intents
\* came back
C11_Witness ==
    /\ GetterCalled
    /\ call.fn = "get_intent_list"
    /\ call.node_id = 1
    /\ call.limit = 10
    /\ CallFailed
    /\ ~call.ret.raised
    /\ Len(call.ret.val.intents) = 5

\* the error value of the record safe_api_call returned for the failed call
FailedKind ==
    LET out == call.outs[1]
    IN  IF FailureOutcome(out) THEN JStr(ClaimedKind(out)) ELSE out.body.v["error"]

\* C12 (as stated): every record produced from a failed call retains the
\* error kind of that failure (its error field is non-null), for node health,
\* agents, builders, metrics, intents and matches.
C12_FailedCallRetainsErrorKind ==
    (GetterCalled /\ Serves(call.fn, call.node_id) /\ CallFailed) =>
        /\ ~call.ret.raised
        /\ call.ret.val.error # JNull

\* C12 (amended): a node-health or builders record produced from a failed
\* call retains the error kind of that failure; an agents, metrics, intents
\* or matches record produced from a failed call carries demonstration data
\* and a null error.
C12_OnlyHealthAndBuildersRetainErrorKind ==
    (GetterCalled /\ Serves(call.fn, call.node_id) /\ CallFailed) =>
        /\ ~call.ret.raised
        /\ call.fn \in {"get_node_status", "get_builders_status"} =>
              call.ret.val.error = FailedKind
        /\ call.fn \notin {"get_node_status", "get_builders_status"} =>
              call.ret.val.error = JNull

\* the metrics call of node 1 was refused and populated metrics with a null
\* error came back
C12_Witness ==
    /\ GetterCalled
    /\ call.fn = "get_execution_metrics"
    /\ call.node_id = 1
    /\ call.outs[1].kind = "ConnectError"
    /\ ~call.ret.raised
    /\ call.ret.val.error = JNull
    /\ call.ret.val.total_intents # JInt(0)

\* the data fields of a record hold their safe defaults (node_id, http_port
\* and last_check identify the record and are no data fields)
SafeDefaults(r) ==
    CASE r.cls = "NodeStatus" -> r.is_running = FALSE /\ r.response_time_ms = JInt(0)
      [] r.cls = "AgentsStatusResponse" -> r.agents = <<>>
      [] r.cls = "BuildersStatusResponse" -> r.builders = <<>>
      [] r.cls = "IntentListResponse" -> r.intents = <<>>
      [] r.cls = "MatchHistoryResponse" -> r.matches = <<>>
      [] r.cls = "ExecutionMetrics" ->
            /\ r.total_intents = JInt(0)
            /\ r.active_intents = JInt(0)
            /\ r.total_bids = JInt(0)
            /\ r.active_bids = JInt(0)
            /\ r.completed_matches = JInt(0)
            /\ r.success_rate = JFloat(0)
            /\ r.avg_response_time_ms = JInt(0)
            /\ r.p2p_peers_connected = JInt(0)
            /\ r.network_messages_sent = JInt(0)
            /\ r.network_messages_received = JInt(0)

\* C13: for every record returned by a getter (node status, agents, builders,
\* metrics, intents, matches) a non-null error field implies that its data
\* fields hold safe defaults: list fields empty, numeric fields zero.
C13_ErrorImpliesSafeDefaults ==
    (GetterCalled /\ ~call.ret.raised /\ call.ret.val.error # JNull) =>
        SafeDefaults(call.ret.val)

\* metrics were asked of an id outside the registry and an error record came
\* back
C13_Witness ==
    /\ GetterCalled
    /\ call.fn = "get_execution_metrics"
    /\ call.node_id \notin RegistryNodes
    /\ ~call.ret.raised
    /\ call.ret.val.error = JStr("invalid_node_id")

\* the error a getter gives for a node that cannot serve it
InvalidNodeError ==
    CASE call.fn = "get_agents_status" -> "invalid_agent_node"
      [] call.fn \in {"get_builders_status", "get_match_history"} ->
            "invalid_builder_node"
      [] OTHER -> "invalid_node_id"

\* C14: a getter asked about a node that cannot serve the capability returns
\* an error record without issuing any HTTP call: invalid_node_id (status:
\* is_running false, port 0) for get_node_status, get_execution_metrics and
\* get_intent_list on an id outside the registry, invalid_agent_node with
\* empty agents for get_agents_status on a node that is no ServiceAgent,
\* invalid_builder_node with an empty collection for get_builders_status and
\* get_match_history on a node that is no BlockBuilder.
C14_InvalidNodeGivesErrorWithoutCall ==
    (GetterCalled /\ ~Serves(call.fn, call.node_id)) =>
        /\ call.gets = 0
        /\ ~call.ret.raised
        /\ call.ret.val.error = JStr(InvalidNodeError)
        /\ call.fn = "get_node_status" =>
              /\ call.ret.val.is_running = FALSE
              /\ call.ret.val.http_port = 0
        /\ call.fn \in DemoGetters \cup {"get_builders_status"} => Records = <<>>

\* agents were asked of the publisher node: no GET, invalid_agent_node
C14_Witness ==
    /\ GetterCalled
    /\ call.fn = "get_agents_status"
    /\ call.node_id = 1
    /\ call.gets = 0
    /\ ~call.ret.raised
    /\ call.ret.val.error = JStr("invalid_agent_node")

----------------------------------------------------------------------------
(* Properties of fetch_all_data (checked under Spec) *)

Done == pc = "done"
Returned == Done /\ ~ret.raised
Meta == ret.val["_fetch_metadata"]

TopLevelKeys ==
    {"nodes", "agents", "builders", "metrics", "intents", "matches", "_fetch_metadata"}

\* what gather holds for task i once it has finished, from the environment alone
GatherValue(i) ==
    LET o == TaskOutcome(i, env)
    IN  IF o.raised THEN PyException(o.val) ELSE o.val

TaskRaised(i) == TaskOutcome(i, env).raised

\* C3: fetch_all_data never raises and always returns a snapshot with the keys
\* nodes, agents, builders, metrics, intents, matches and _fetch_metadata, for
\* every combination of successes, failures, raising tasks and deadline expiry.
C3_SnapshotAlwaysWellFormed ==
    Done => (~ret.raised /\ TopLevelKeys \subseteq DOMAIN ret.val)

\* a cycle in which a task raised has returned its snapshot
C3_Witness ==
    /\ Returned
    /\ ~timedOut
    /\ \E i \in 1..Len(Tasks) : results[i].cls = "Exception"
    /\ TopLevelKeys \subseteq DOMAIN ret.val

\* every HTTP call of the cycle fails: each node refuses or times out
AllUnreachable == \A n \in NODE_IDS : env.cond[n] \in {"refused", "slow"}

\* C4: when every node is unreachable, the snapshot has successful_tasks = 0
\* and exactly total_tasks entries in errors.
C4_AllUnreachableAllErrors ==
    (Returned /\ AllUnreachable) =>
        /\ Meta.successful_tasks = 0
        /\ Len(Meta.errors) = Meta.total_tasks

\* the list the snapshot was assembled from
AssembledFrom == IF timedOut THEN OnDeadline(results) ELSE results

\* a result that carries an error: a failure record, a typed record whose
\* error field is set, or an exception raised by the task
CarriesError(x) ==
    CASE x.cls = "dict" -> "error" \in DOMAIN x.d /\ Truthy(x.d["error"])
      [] x.cls = "Exception" -> TRUE
      [] x.cls \in {"NodeStatus", "AgentsStatusResponse", "BuildersStatusResponse",
                    "IntentListResponse", "MatchHistoryResponse", "ExecutionMetrics"} ->
            Truthy(x.error)
      [] OTHER -> FALSE

\* some HTTP call of the cycle fails
SomeCallFails == \E n \in NODE_IDS : env.cond[n] \in {"refused", "slow"}

\* C5: a result counts in successful_tasks only if it carries no error, every
\* result that carries an error appears in errors, and errors is non-empty
\* whenever at least one call of the cycle failed.
C5_ErrorsAreCounted ==
    Returned =>
        LET res == AssembledFrom
            bad == {i \in 1..Len(res) : CarriesError(res[i])}
        IN  /\ Meta.successful_tasks <= Len(res) - Cardinality(bad)
            /\ Len(Meta.errors) >= Cardinality(bad)
            /\ SomeCallFails => Meta.errors # <<>>

\* the snapshot's slot of a task of the node-keyed buckets
BucketOf(type) ==
    CASE type = "node_status" -> "nodes"
      [] type = "agents" -> "agents"
      [] type = "builders" -> "builders"
      [] type = "metrics" -> "metrics"
      [] type = "intents" -> "intents"
      [] type = "matches" -> "matches"

KeyedTasks == {i \in 1..Len(Tasks) : Tasks[i].type \notin {"builders", "matches"}}

Slot(i) == ret.val[BucketOf(Tasks[i].type)].d[Tasks[i].node_id]

\* C6: when the deadline fires before all tasks have finished, only the tasks
\* still pending get a timeout record; every task that had completed keeps
\* its own result in the snapshot.
C6_DeadlineKeepsCompletedResults ==
    (Returned /\ timedOut) =>
        \A i \in KeyedTasks :
            IF results[i].cls = "pending"
            THEN Slot(i) = TimeoutRecord
            ELSE Slot(i) = results[i]

\* C7: a task that raises is converted into an error record of kind unknown
\* tagged with its node id and placed in its (data kind, node id) slot, and
\* the sibling tasks run to completion and keep their own results.
C7_RaisingTaskBecomesUnknownRecord ==
    (Returned /\ ~timedOut) =>
        \A i \in KeyedTasks :
            IF TaskRaised(i)
            THEN /\ Slot(i).cls = "dict"
                 /\ Slot(i).d["error"] = JStr("unknown")
                 /\ Slot(i).d["node_id"] = JInt(Tasks[i].node_id)
            ELSE Slot(i) = GatherValue(i)

\* C8: the snapshot does not depend on the order in which the tasks complete:
\* for fixed per-task outcomes every interleaving of completions before the
\* deadline gives the same slots, the same successful_tasks and the same errors.
C8_SnapshotIndependentOfCompletionOrder ==
    (Returned /\ ~timedOut) =>
        ret.val = Assemble([i \in 1..Len(Tasks) |-> GatherValue(i)])

\* a snapshot built after some task overtook an earlier one, in a cycle
\* whose tasks do not all produce the same kind of result
C8_Witness ==
    /\ Returned
    /\ ~timedOut
    /\ overtook
    /\ \E i \in 1..Len(Tasks) : results[i].cls = "Exception"
    /\ ret.val = Assemble([i \in 1..Len(Tasks) |-> GatherValue(i)])

\* a bucket is a map from node ids to results
IsNodeMap(b) == b.cls = "dict" /\ b.kt = "int"

\* C9: the nodes, agents, builders, metrics and intents buckets are maps from
\* node id to that node's result and matches is a flat sequence; the
\* builder-status result of node 4 is stored under key 4 of builders.
C9_BucketsKeyedByNode ==
    (Returned /\ ~timedOut) =>
        /\ \A b \in {"nodes", "agents", "builders", "metrics", "intents"} :
              IsNodeMap(ret.val[b])
        /\ ret.val["matches"].cls = "list"
        /\ IsNodeMap(ret.val["builders"])
              => /\ 4 \in DOMAIN ret.val["builders"].d
                 /\ ret.val["builders"].d[4] = results[7]

----------------------------------------------------------------------------
(* Properties of aggregate_execution_metrics (checked under SpecAggregate) *)

\* the nodes of the bucket whose record is an ExecutionMetrics without error
ErrorFree ==
    {n \in DOMAIN agg.bucket :
        agg.bucket[n].cls = "ExecutionMetrics" /\ agg.bucket[n].error = JNull}

\* the sum, in thousandths, of field f over the records of the nodes in S
RECURSIVE SumOver(_, _)
SumOver(S, f) ==
    IF S = {} THEN 0
    ELSE LET n == CHOOSE m \in S : TRUE
         IN  Thousandths(agg.bucket[n][f]) + SumOver(S \ {n}, f)

\* C16: for every metrics bucket with at least one error-free record the
\* aggregate is the reference aggregate over the error-free ExecutionMetrics
\* records only: total_intents, active_bids and completed_matches are their
\* sums, success_rate their arithmetic mean, avg_response_time the floor of
\* the mean of their response times, p2p_peers their maximum peer count;
\* records bearing an error and error dictionaries contribute nothing.
C16_AggregateOverErrorFreeRecords ==
    (agg.called /\ ErrorFree # {}) =>
        /\ ~agg.ret.raised
        /\ LET d == agg.ret.val
               k == Cardinality(ErrorFree)
               time == Thousandths(d.avg_response_time)
           IN  /\ Thousandths(d.total_intents) = SumOver(ErrorFree, "total_intents")
               /\ Thousandths(d.active_bids) = SumOver(ErrorFree, "active_bids")
               /\ Thousandths(d.completed_matches) =
                        SumOver(ErrorFree, "completed_matches")
               /\ d.success_rate.num * 1000 * k =
                        d.success_rate.den * SumOver(ErrorFree, "success_rate")
               /\ time % 1000 = 0
               /\ time * k <= SumOver(ErrorFree, "avg_response_time_ms")
               /\ SumOver(ErrorFree, "avg_response_time_ms") < (time + 1000) * k
               /\ \E n \in ErrorFree :
                        Thousandths(agg.bucket[n].p2p_peers_connected) =
                            Thousandths(d.p2p_peers)
               /\ \A n \in ErrorFree :
                        Thousandths(agg.bucket[n].p2p_peers_connected) <=
                            Thousandths(d.p2p_peers)

----------------------------------------------------------------------------
(* Properties of process_dashboard_data across the cycles of a session
   (checked under SpecSession) *)

\* the latest cycle computed a DashboardMetrics from session.data
Computed == session.cycles >= 1 /\ session.outcome = "computed"

Dashboard == session.dashboard_metrics

\* no entry of the snapshot's metrics bucket is an ExecutionMetrics without
\* error
NoErrorFreeMetrics ==
    \A n \in DOMAIN session.data["metrics"].d :
        LET m == session.data["metrics"].d[n]
        IN  ~(m.cls = "ExecutionMetrics" /\ m.error = JNull)

AggregatesAreZero ==
    /\ Dashboard.total_intents = JInt(0)
    /\ Dashboard.active_bids = JInt(0)
    /\ Dashboard.completed_matches = JInt(0)
    /\ Dashboard.success_rate = JFloat(0)
    /\ Dashboard.avg_response_time = JInt(0)
    /\ Dashboard.p2p_peers = JInt(0)

DeltasAreZero ==
    /\ Dashboard.delta_nodes = JInt(0)
    /\ Dashboard.delta_intents = JInt(0)
    /\ Dashboard.delta_bids = JInt(0)
    /\ Dashboard.delta_matches = JInt(0)

\* each delta is the counter of this cycle minus the counter computed by the
\* completed cycle before it
DeltasAgainstBefore ==
    /\ Thousandths(Dashboard.delta_nodes) =
            Thousandths(Dashboard.active_nodes) - Thousandths(session.before.active_nodes)
    /\ Thousandths(Dashboard.delta_intents) =
            Thousandths(Dashboard.total_intents) - Thousandths(session.before.total_intents)
    /\ Thousandths(Dashboard.delta_bids) =
            Thousandths(Dashboard.active_bids) - Thousandths(session.before.active_bids)
    /\ Thousandths(Dashboard.delta_matches) =
            Thousandths(Dashboard.completed_matches)
                - Thousandths(session.before.completed_matches)

\* C15 (as stated): for every snapshot in which no node has an error-free
\* metrics record, and for every previous-cycle state, the computed
\* DashboardMetrics has activeNodeCount 0, every numeric aggregate 0 and every
\* delta 0.
C15_NoMetricsAllZero ==
    (Computed /\ NoErrorFreeMetrics) =>
        /\ Dashboard.active_nodes = JInt(0)
        /\ AggregatesAreZero
        /\ DeltasAreZero

\* C15 (amended): for every snapshot a cycle can receive in which no node has
\* an error-free metrics record, the computed DashboardMetrics has
\* activeNodeCount 0 and every numeric aggregate 0, and each delta is 0 minus
\* the counter of the previous cycle (0 only when that counter was 0).
C15_NoMetricsZeroAggregates ==
    (Computed /\ NoErrorFreeMetrics) =>
        /\ Dashboard.active_nodes = JInt(0)
        /\ AggregatesAreZero
        /\ DeltasAgainstBefore

\* a cycle without error-free metrics followed a cycle that had counted
\* intents: its intent delta is negative
C15_Witness ==
    /\ Computed
    /\ session.cycles >= 2
    /\ NoErrorFreeMetrics
    /\ AggregatesAreZero
    /\ Thousandths(session.before.total_intents) > 0
    /\ Thousandths(Dashboard.delta_intents) < 0

\* the entries of the health bucket whose record is a running NodeStatus
\* without error
RunningNodes ==
    {n \in DOMAIN session.data["nodes"].d :
        LET node == session.data["nodes"].d[n]
        IN  node.cls = "NodeStatus" /\ node.is_running /\ node.error = JNull}

\* C17: active_nodes of the computed DashboardMetrics is the number of entries
\* of the health bucket whose record has is_running true and no error,
\* whatever the metrics bucket holds; entries that are error dictionaries are
\* not counted.
C17_ActiveNodesFromHealthBucket ==
    Computed => Dashboard.active_nodes = JInt(Cardinality(RunningNodes))

\* three nodes were running and one health check had failed: three are counted
C17_Witness ==
    /\ Computed
    /\ Cardinality(RunningNodes) = 3
    /\ \E n \in DOMAIN session.data["nodes"].d :
            LET node == session.data["nodes"].d[n]
            IN  node.cls = "NodeStatus" /\ node.error # JNull
    /\ Dashboard.active_nodes = JInt(3)

\* C18: on the first cycle of a session, when no previous-cycle metrics
\* exist, all four deltas of the computed DashboardMetrics are zero, whatever
\* the current counters are.
C18_FirstCycleDeltasZero ==
    (Computed /\ session.cycles = 1) => DeltasAreZero

\* C19: after cycle n completes the stored previous-cycle state holds exactly
\* the four counters computed in cycle n, so that for every n > 1 each delta
\* of cycle n is that counter's value in cycle n minus its value in cycle
\* n - 1.
C19_PreviousHoldsLatestCounters ==
    /\ session.cycles >= 1 =>
          /\ Counters(session.previous_metrics) = Counters(Dashboard)
          /\ session.previous_metrics =
                [create_empty_dashboard_metrics EXCEPT
                    !.active_nodes = Dashboard.active_nodes,
                    !.total_intents = Dashboard.total_intents,
                    !.active_bids = Dashboard.active_bids,
                    !.completed_matches = Dashboard.completed_matches]
    /\ (Computed /\ session.cycles >= 2) => DeltasAgainstBefore

\* the second cycle (or a later one) counted other intents than the cycle
\* before it and reports the difference
C19_Witness ==
    /\ Computed
    /\ session.cycles >= 2
    /\ Thousandths(session.before.total_intents) > 0
    /\ Thousandths(Dashboard.total_intents) > Thousandths(session.before.total_intents)
    /\ Thousandths(Dashboard.delta_intents) =
            Thousandths(Dashboard.total_intents) - Thousandths(session.before.total_intents)
    /\ Counters(session.previous_metrics) = Counters(Dashboard)

----------------------------------------------------------------------------
(* data_models.DataCache: the rolling histories *)

\* l[-n:] for n >= 0: -0 is 0, so l[-0:] is l[0:], the whole list
SliceLast(l, n) ==
    IF n = 0 \/ n >= Len(l) THEN l ELSE SubSeq(l, Len(l) - n + 1, Len(l))

\* k entries never added before; an entry is told apart by the position it
\* has among the entries added to its history (the cache never reads entries)
FreshEntries(h, k) == [i \in 1..k |-> Len(cache.added[h]) + i]

\* add_metrics(metrics): append, then pop(0) once when over max_size
add_metrics ==
    /\ cache.constructed
    /\ Len(cache.added["metrics"]) < MaxInserts
    /\ LET metrics == FreshEntries("metrics", 1)[1]
           appended == Append(cache.history["metrics"], metrics)
       IN  cache' = [cache EXCEPT
                       !.history["metrics"] =
                           IF Len(appended) > cache.max_size
                           THEN Tail(appended) ELSE appended,
                       !.added["metrics"] = Append(@, metrics)]
    /\ UNCHANGED <<call, env, pc, results, timedOut, overtook, ret, agg,
                   session, norm>>

\* add_intents, add_matches and add_agents have the same body: extend, then
\* keep history[-max_size:] when over max_size
AddList(h) ==
    /\ cache.constructed
    /\ \E k \in 0..(MaxInserts - Len(cache.added[h])) :
          LET entries == FreshEntries(h, k)
              extended == cache.history[h] \o entries
          IN  cache' = [cache EXCEPT
                          !.history[h] =
                              IF Len(extended) > cache.max_size
                              THEN SliceLast(extended, cache.max_size)
                              ELSE extended,
                          !.added[h] = @ \o entries]
    /\ UNCHANGED <<call, env, pc, results, timedOut, overtook, ret, agg,
                   session, norm>>

add_intents == AddList("intents")

add_matches == AddList("matches")

add_agents == AddList("agents")

\* clear(): every history emptied
clear ==
    /\ cache.constructed
    /\ cache' = DataCache(cache.max_size)
    /\ UNCHANGED <<call, env, pc, results, timedOut, overtook, ret, agg,
                   session, norm>>

InitCache ==
    /\ call = NoCall
    /\ IdleCycle
    /\ agg = NoAggregate
    /\ session = NewSession
    /\ cache \in {DataCache(max_size) : max_size \in 0..MaxSize}
    /\ norm = NoNormalize

NextCache ==
    \/ add_metrics
    \/ add_intents
    \/ add_matches
    \/ add_agents
    \/ clear

SpecCache == InitCache /\ [][NextCache]_vars

----------------------------------------------------------------------------
(* Properties of DataCache (checked under SpecCache) *)

\* the n entries added last, in the order they were added (all when fewer)
MostRecent(added, n) ==
    LET kept == IF Len(added) < n THEN Len(added) ELSE n
    IN  [i \in 1..kept |-> added[Len(added) - kept + i]]

\* C21: whatever max_size the cache was constructed with and whatever was
\* added to it, each history holds at most max_size entries, and they are
\* the entries added last, in the order they were added
C21_HistoriesHoldMostRecent ==
    cache.constructed =>
        \A h \in Histories :
            /\ Len(cache.history[h]) <= cache.max_size
            /\ cache.history[h] = MostRecent(cache.added[h], cache.max_size)

\* the same for a cache constructed with a max_size of one or more
C21_PositiveBoundHoldsMostRecent ==
    cache.constructed /\ cache.max_size >= 1 =>
        \A h \in Histories :
            /\ Len(cache.history[h]) <= cache.max_size
            /\ cache.history[h] = MostRecent(cache.added[h], cache.max_size)

----------------------------------------------------------------------------
(* The field normalizers, applied to one payload record at a time *)

Normalizers == {"agent", "builder", "intent", "match", "metrics"}

\* the keys each field of the record is read from, in the order of the
\* nested .get calls
FieldKeys(fn) ==
    CASE fn = "agent" ->
            [agent_id |-> <<"agentId", "agent_id">>,
             agent_type |-> <<"agentType", "agent_type">>,
             status |-> <<"status">>,
             total_bids_submitted |-> <<"processedIntents", "total_bids_submitted">>,
             successful_bids |-> <<"successfulBids", "successful_bids">>,
             total_earnings |-> <<"totalEarnings", "total_earnings">>,
             last_activity |-> <<"lastActivity", "last_activity">>]
      [] fn = "builder" ->
            [builder_id |-> <<"builder_id">>,
             status |-> <<"status">>,
             active_sessions |-> <<"active_sessions">>,
             completed_matches |-> <<"completed_matches">>,
             total_bids_received |-> <<"total_bids_received">>,
             last_activity |-> <<"last_activity">>]
      [] fn = "intent" ->
            [intent_id |-> <<"id", "intent_id">>,
             intent_type |-> <<"type", "intent_type">>,
             status |-> <<"status">>,
             sender_id |-> <<"senderId", "sender_id", "sender">>,
             created_at |-> <<"timestamp", "created_at">>,
             broadcast_count |-> <<"broadcast_count">>,
             bid_count |-> <<"bid_count">>]
      [] fn = "match" ->
            [intent_id |-> <<"intentId", "intent_id">>,
             winning_agent_id |-> <<"winningAgent", "winning_agent_id", "winner">>,
             winning_bid_amount |-> <<"winningBid", "winning_bid_amount", "bid_amount">>,
             total_bids |-> <<"totalBids", "total_bids_received", "total_bids">>,
             match_algorithm |-> <<"algorithm", "matching_algorithm">>,
             matched_at |-> <<"matchedAt", "matched_at", "timestamp">>,
             status |-> <<"status">>]
      [] fn = "metrics" ->
            [total_intents |-> <<"total_intents">>,
             active_intents |-> <<"active_intents">>,
             total_bids |-> <<"total_bids">>,
             active_bids |-> <<"active_bids">>,
             completed_matches |-> <<"completed_matches">>,
             success_rate |-> <<"success_rate">>,
             avg_response_time_ms |-> <<"avg_response_time_ms">>,
             p2p_peers_connected |-> <<"p2p_peers_connected">>,
             network_messages_sent |-> <<"network_messages_sent">>,
             network_messages_received |-> <<"network_messages_received">>]

\* the default the innermost .get falls back to
FieldDefault(fn) ==
    CASE fn = "agent" ->
            [agent_id |-> JStr("unknown"), agent_type |-> JStr("unknown"),
             status |-> JStr("unknown"), total_bids_submitted |-> JStr("0"),
             successful_bids |-> JStr("0"), total_earnings |-> JStr("0.0"),
             last_activity |-> JStr("0")]
      [] fn = "builder" ->
            [builder_id |-> JStr("unknown"), status |-> JStr("unknown"),
             active_sessions |-> JInt(0), completed_matches |-> JInt(0),
             total_bids_received |-> JInt(0), last_activity |-> JInt(0)]
      [] fn = "intent" ->
            [intent_id |-> JStr("unknown"), intent_type |-> JStr("unspecified"),
             status |-> JStr("unknown"), sender_id |-> JStr("unknown"),
             created_at |-> JStr("0"), broadcast_count |-> JInt(1),
             bid_count |-> JInt(0)]
      [] fn = "match" ->
            [intent_id |-> JStr("unknown"), winning_agent_id |-> JStr("unknown"),
             winning_bid_amount |-> JStr("0.0"), total_bids |-> JStr("0"),
             match_algorithm |-> JStr("unknown"), matched_at |-> JStr("0"),
             status |-> JStr("unknown")]
      [] fn = "metrics" ->
            [total_intents |-> JInt(0), active_intents |-> JInt(0),
             total_bids |-> JInt(0), active_bids |-> JInt(0),
             completed_matches |-> JInt(0), success_rate |-> JFloat(0),
             avg_response_time_ms |-> JInt(0), p2p_peers_connected |-> JInt(0),
             network_messages_sent |-> JInt(0),
             network_messages_received |-> JInt(0)]

\* the fields whose value goes through the try/int()/except conversion
CoercedFields(fn) ==
    CASE fn = "agent"  -> {"total_bids_submitted", "successful_bids", "last_activity"}
      [] fn = "intent" -> {"created_at"}
      [] fn = "match"  -> {"total_bids", "matched_at"}
      [] OTHER         -> {}

\* a well-formed record of each kind, in the names the services use
BasePayload(fn) ==
    CASE fn = "agent"   -> AgentPayload.v
      [] fn = "builder" -> BuilderPayload.v
      [] fn = "intent"  -> IntentPayload.v
      [] fn = "match"   -> MatchPayload.v
      [] fn = "metrics" ->
            [total_intents |-> JInt(10), active_intents |-> JInt(2),
             total_bids |-> JInt(30), active_bids |-> JInt(4),
             completed_matches |-> JInt(6), success_rate |-> JFloat(900),
             avg_response_time_ms |-> JInt(120), p2p_peers_connected |-> JInt(3),
             network_messages_sent |-> JInt(40),
             network_messages_received |-> JInt(50)]

\* the records the fields are varied in: the well-formed one, and for a
\* match the one that carries no match_id as well
BasePayloads(fn) ==
    {BasePayload(fn)}
    \cup (IF fn = "match" THEN {[k \in DOMAIN BasePayload(fn) \ {"match_id"} |->
                                   BasePayload(fn)[k]]}
          ELSE {})

\* values a service may send for a field: well-formed and malformed
FieldValues ==
    {JInt(7), JInt(-4), JStr("12"), JStr("many"), JStr(""), JNull, JFloat(1500)}

\* integer timestamps around the two magnitudes the conversion meets:
\* 10^12 (where the division starts) and 10^15 (whose quotient is 10^12)
Timestamps ==
    {JInt(-5), JInt(0), JInt(Now),
     JBig(1000000, 0), JBig(1000000, 1), JBig(1000000, 999), JBig(1000001, 0),
     JBig(1700000, 123456),
     JBig(999999999, 999999), JBig(1000000000, 0), JBig(1000000000, 999),
     JBig(1000000000, 1000), JBig(1700000000, 0)}

\* the keys a payload may name the field by: those the code reads, and for an
\* agent's bids the key totalBidsSubmitted some services use
KeysSent(fn, field) ==
    {FieldKeys(fn)[field][i] : i \in 1..Len(FieldKeys(fn)[field])}
    \cup (IF fn = "agent" /\ field = "total_bids_submitted"
          THEN {"totalBidsSubmitted"} ELSE {})

\* the value a payload carrying several names of one field gives to each
AliasValue(k) ==
    CASE k \in {"totalBidsSubmitted"} -> JStr("3")
      [] k \in {"processedIntents", "agentId", "agentType", "successfulBids",
                "totalEarnings", "lastActivity", "id", "type", "senderId",
                "timestamp", "intentId", "winningAgent", "winningBid",
                "totalBids", "algorithm", "matchedAt"} -> JStr("7")
      [] k \in {"sender", "winner", "bid_amount", "total_bids"} -> JStr("0")
      [] OTHER -> JStr("12")

\* d without the keys ks
Without(d, ks) == [k \in DOMAIN d \ ks |-> d[k]]

\* {**d, **e}
Merge(d, e) ==
    [k \in DOMAIN d \cup DOMAIN e |-> IF k \in DOMAIN e THEN e[k] ELSE d[k]]

\* the payloads that name one field in every way: under no key, under one key
\* with each value, under several keys with a value per key
FieldSettings(fn, field) ==
    {EmptyDict}
    \cup {[k \in {key} |-> v] : key \in KeysSent(fn, field), v \in FieldValues}
    \cup {[k \in {key} |-> v] :
            key \in KeysSent(fn, field),
            v \in IF fn = "match" /\ field = "matched_at" THEN Timestamps ELSE {}}
    \cup {[k \in S |-> AliasValue(k)] : S \in SUBSET KeysSent(fn, field) \ {{}}}

NormalizerInvocation(fn, field, base, setting) ==
    [fn |-> fn, field |-> field, setting |-> setting,
     arg |-> Merge(Without(base, KeysSent(fn, field)), setting),
     called |-> FALSE, ret |-> Return(JNull)]

NormalizerInvocations ==
    UNION {UNION {{NormalizerInvocation(fn, field, b, s) :
                      b \in BasePayloads(fn), s \in FieldSettings(fn, field)} :
                    field \in DOMAIN FieldKeys(fn)} : fn \in Normalizers}

\* the record the code builds from the payload record d
Normalize(fn, d) ==
    CASE fn = "agent"   -> AgentOf(d)
      [] fn = "builder" -> BuilderOf(d)
      [] fn = "intent"  -> safe_extract_intent_data(d)
      [] fn = "match"   -> safe_extract_match_data(d)
      [] fn = "metrics" ->
            get_execution_metrics(1, Response(200, JDict(d), 0), 0)

Normalizes(fn) ==
    /\ norm.fn = fn
    /\ ~norm.called
    /\ norm' = [norm EXCEPT !.called = TRUE, !.ret = Normalize(fn, norm.arg)]
    /\ UNCHANGED <<call, env, pc, results, timedOut, overtook, ret, agg,
                   session, cache>>

NormalizeAgent == Normalizes("agent")

NormalizeBuilder == Normalizes("builder")

NormalizeIntent == Normalizes("intent")

NormalizeMatch == Normalizes("match")

NormalizeMetrics == Normalizes("metrics")

InitNormalize ==
    /\ call = NoCall
    /\ IdleCycle
    /\ agg = NoAggregate
    /\ session = NewSession
    /\ cache = NoCache
    /\ norm \in NormalizerInvocations

NextNormalize ==
    \/ NormalizeAgent
    \/ NormalizeBuilder
    \/ NormalizeIntent
    \/ NormalizeMatch
    \/ NormalizeMetrics

SpecNormalize == InitNormalize /\ [][NextNormalize]_vars

----------------------------------------------------------------------------
(* Properties of the field normalizers (checked under SpecNormalize) *)

\* the normalizer fn has built its record
Normalized(fn) == norm.fn = fn /\ norm.called

\* the payload names the varied field once, by key, with the value v
SentOnce(key, v) == DOMAIN norm.setting = {key} /\ norm.setting[key] = v

\* a Python int
IsInteger(x) == x.t \in {"int", "bigint"}

\* the int x is at most hi * 10^6 + lo (a JInt is below 2 * 10^9)
AtMost(x, hi, lo) ==
    x.t = "int" \/ x.v[1] < hi \/ (x.v[1] = hi /\ x.v[2] <= lo)

\* the match normalizer was handed the integer t as the matched-at value
MatchedAtSent(t) ==
    /\ Normalized("match")
    /\ norm.field = "matched_at"
    /\ \E key \in DOMAIN norm.setting : SentOnce(key, t)

\* C22: for every integer timestamp t, normalizing the normalized matched-at
\* value gives the same value as normalizing t once
C22_NormalizationIdempotent ==
    \A t \in Timestamps :
        MatchedAtSent(t) =>
            /\ ~norm.ret.raised
            /\ NormalizeMatchedAt(norm.ret.val.matched_at) = norm.ret.val.matched_at

\* C22 amended: for every integer timestamp t of at most 10^15 + 999 the
\* normalized value is at most 10^12, the largest value read as seconds, and
\* normalizing it again gives the same value
C22_IdempotentUpToFifteenDigits ==
    \A t \in Timestamps :
        MatchedAtSent(t) /\ AtMost(t, 1000000000, 999) =>
            /\ ~norm.ret.raised
            /\ AtMost(norm.ret.val.matched_at, 1000000, 0)
            /\ NormalizeMatchedAt(norm.ret.val.matched_at) = norm.ret.val.matched_at

\* a 13-digit millisecond timestamp has been normalized to seconds
C22_Witness ==
    /\ MatchedAtSent(JBig(1700000, 123456))
    /\ norm.ret.val.matched_at = JInt(1700000123)

\* the numeric fields of each record: counts, latencies, rates and times
NumericFields(fn) ==
    CASE fn = "agent"   -> {"total_bids_submitted", "successful_bids", "last_activity"}
      [] fn = "builder" -> {"active_sessions", "completed_matches",
                            "total_bids_received", "last_activity"}
      [] fn = "intent"  -> {"created_at", "broadcast_count", "bid_count"}
      [] fn = "match"   -> {"total_bids", "matched_at"}
      [] fn = "metrics" -> DOMAIN FieldKeys("metrics")

\* the zero or default a numeric field takes: the field's default, as a number
NumericDefault(fn, field) ==
    LET d == FieldDefault(fn)[field]
    IN  IF d.t = "str" THEN JInt(IntOfStr[d.v]) ELSE d

\* a value that is not a number: a non-numeric string or null
MalformedValues == {JStr("many"), JNull}

\* the payload carries the varied field malformed, or not at all
MalformedSent ==
    \/ norm.setting = EmptyDict
    \/ \E key \in DOMAIN norm.setting, v \in MalformedValues : SentOnce(key, v)

\* C23: whatever the normalizer and whichever numeric field of its record, a
\* payload that carries the field as a non-numeric string or as null, or that
\* lacks it, gives the field its zero/default and the construction of the
\* record does not raise
C23_MalformedNumericGivesDefault ==
    \A fn \in Normalizers :
        Normalized(fn) /\ norm.field \in NumericFields(fn) /\ MalformedSent =>
            /\ ~norm.ret.raised
            /\ norm.ret.val[norm.field] = NumericDefault(fn, norm.field)

\* the same for the fields that go through the int() conversion
C23_CoercedFieldsGiveDefault ==
    \A fn \in Normalizers :
        Normalized(fn) /\ norm.field \in CoercedFields(fn) /\ MalformedSent =>
            /\ ~norm.ret.raised
            /\ norm.ret.val[norm.field] = NumericDefault(fn, norm.field)

\* no construction raises when a numeric field is malformed or missing
C23_MalformedNumericNeverRaises ==
    \A fn \in Normalizers :
        Normalized(fn) /\ norm.field \in NumericFields(fn) /\ MalformedSent =>
            ~norm.ret.raised

\* the count and latency fields of each record
CountFields(fn) ==
    CASE fn = "agent"   -> {"total_bids_submitted", "successful_bids"}
      [] fn = "builder" -> {"active_sessions", "completed_matches",
                            "total_bids_received"}
      [] fn = "intent"  -> {"broadcast_count", "bid_count"}
      [] fn = "match"   -> {"total_bids"}
      [] fn = "metrics" -> DOMAIN FieldKeys("metrics") \ {"success_rate"}

\* a Python int that is not negative
NonNegativeInteger(x) == IsInteger(x) /\ (x.t = "int" => x.v >= 0)

\* a number between 0 and 1
InUnitInterval(x) ==
    \/ x.t = "int" /\ x.v \in {0, 1}
    \/ x.t = "float" /\ x.v >= 0 /\ x.v <= 1000

\* C24: whatever the payload holds, every count and latency field of the
\* record a normalizer builds is a non-negative integer and the success rate
\* of a metrics record lies in [0,1]
C24_CountsNonNegativeRateInUnit ==
    \A fn \in Normalizers :
        Normalized(fn) /\ ~norm.ret.raised =>
            /\ \A f \in CountFields(fn) : NonNegativeInteger(norm.ret.val[f])
            /\ fn = "metrics" => InUnitInterval(norm.ret.val.success_rate)

\* the name the primary convention gives to a key of the alternate one
PrimaryName(key) ==
    CASE key = "intentId"     -> "intent_id"
      [] key = "winningAgent" -> "winning_agent_id"
      [] key = "winningBid"   -> "winning_bid_amount"
      [] key = "totalBids"    -> "total_bids_received"
      [] key = "algorithm"    -> "matching_algorithm"
      [] key = "matchedAt"    -> "matched_at"
      [] OTHER                -> key

\* the keys of a match payload written in the alternate convention
AlternateKeys ==
    {"match_id", "intentId", "winningAgent", "winningBid", "totalBids",
     "algorithm", "matchedAt", "status"}

\* the same values written in the primary convention
ToPrimary(d) ==
    [k \in {PrimaryName(j) : j \in DOMAIN d} |->
        d[CHOOSE j \in DOMAIN d : PrimaryName(j) = k]]

\* the match normalizer was handed a payload in the alternate convention
AlternateMatchSent == Normalized("match") /\ DOMAIN norm.arg \subseteq AlternateKeys

\* C25: the record built from a match payload in the alternate convention
\* equals, field by field and match id included, the record built from the
\* same values in the primary convention
C25_AlternateEqualsPrimary ==
    AlternateMatchSent => norm.ret = safe_extract_match_data(ToPrimary(norm.arg))

\* the same for the payloads that carry a match_id and a text intent id
C25_EqualWhenMatchIdSent ==
    /\ AlternateMatchSent
    /\ "match_id" \in DOMAIN norm.arg
    /\ "intentId" \in DOMAIN norm.arg => norm.arg["intentId"].t = "str"
    => norm.ret = safe_extract_match_data(ToPrimary(norm.arg))

\* the value of the first key of keys, from the i-th on, that d holds, and
\* default when it holds none
RECURSIVE FirstPresent(_, _, _, _)
FirstPresent(d, keys, i, default) ==
    IF i > Len(keys) THEN default
    ELSE IF keys[i] \in DOMAIN d THEN d[keys[i]]
    ELSE FirstPresent(d, keys, i + 1, default)

\* the conversion the field's value goes through
Converted(fn, field, v) ==
    IF fn = "match" /\ field = "matched_at" THEN NormalizeMatchedAt(v)
    ELSE IF field \in CoercedFields(fn) THEN SafeInt(v)
    ELSE v

\* the order the interface description gives: the one of the code, but for an
\* agent's bids-submitted count
DocumentedKeys(fn) ==
    IF fn = "agent"
    THEN [FieldKeys(fn) EXCEPT !["total_bids_submitted"] =
            <<"totalBidsSubmitted", "total_bids_submitted", "processedIntents">>]
    ELSE FieldKeys(fn)

\* C26: every field takes the value of the first alias present, in the
\* documented order, and its default when none is; an agent's bids-submitted
\* count is read from totalBidsSubmitted, then total_bids_submitted, then
\* processedIntents
C26_FirstDocumentedAliasWins ==
    \A fn \in Normalizers :
        Normalized(fn) /\ ~norm.ret.raised =>
            norm.ret.val[norm.field] =
                Converted(fn, norm.field,
                          FirstPresent(norm.arg, DocumentedKeys(fn)[norm.field], 1,
                                       FieldDefault(fn)[norm.field]))

\* C26 amended: every field takes the value of the first alias present and
\* its default when none is; an agent's bids-submitted count is read from
\* processedIntents, then total_bids_submitted, and never from
\* totalBidsSubmitted
C26_FirstAliasWins ==
    \A fn \in Normalizers :
        Normalized(fn) /\ ~norm.ret.raised =>
            norm.ret.val[norm.field] =
                Converted(fn, norm.field,
                          FirstPresent(norm.arg, FieldKeys(fn)[norm.field], 1,
                                       FieldDefault(fn)[norm.field]))

\* an agent payload carrying the count under all three names has been read
C26_Witness ==
    /\ Normalized("agent")
    /\ norm.field = "total_bids_submitted"
    /\ DOMAIN norm.setting =
          {"totalBidsSubmitted", "total_bids_submitted", "processedIntents"}
    /\ norm.ret.val.total_bids_submitted = JInt(7)

----------------------------------------------------------------------------
(* Properties of get_intent_list's endpoint fallback (checked under SpecGetter) *)

\* the suffixes of the three intent endpoints, in the documented order
IntentSuffixes ==
    <<"/pinai_intent/intent/query", "/pinai_intent/intents",
      "/pinai_intent/intent/list">>

\* the first n intent URLs of the node, in the documented order
FirstIntentUrls(n) ==
    [i \in 1..n |->
        BaseUrl(call.node_id) \o IntentSuffixes[i] \o "?limit=" \o IntText(call.limit)]

\* get_intent_list has returned for a registered node
IntentListQueried ==
    call.fn = "get_intent_list" /\ call.called /\ HasConfig(call.node_id)

\* the returned list is the synthetic one
SyntheticIntents ==
    /\ ~call.ret.raised
    /\ Len(call.ret.val.intents) > 0
    /\ call.ret.val.intents[1].sender_id = JStr("auto-publisher")

\* C27: on a registered node the URLs asked are intent/query, intents and
\* intent/list in this order, up to and including the first that gives a
\* result without an error; nothing is asked after it, and the synthetic list
\* is returned only when all three were asked and none gave such a result
C27_EndpointsInOrderUntilFirstResult ==
    IntentListQueried =>
        LET n == Len(call.asked)
        IN  /\ n \in 1..3
            /\ call.asked = FirstIntentUrls(n)
            /\ \A i \in 1..(n - 1) : ~Usable(call.outs[i])
            /\ n < 3 => Usable(call.outs[n])
            /\ SyntheticIntents =>
                  n = 3 /\ \A i \in 1..3 : ~Usable(call.outs[i])

\* the second endpoint answered after the first failed, and the third was
\* not asked
C27_Witness ==
    /\ IntentListQueried
    /\ Len(call.asked) = 2
    /\ ~Usable(call.outs[1])
    /\ ~SyntheticIntents

\* the synthetic list was returned after the three endpoints failed
C27_WitnessSynthetic ==
    IntentListQueried /\ Len(call.asked) = 3 /\ SyntheticIntents

----------------------------------------------------------------------------
(* Properties of the getters on a 200 body that carries an error key, and of
   the NodeStatus records (checked under SpecGetter) *)

\* the GET of a getter that serves the node was answered 200 with a JSON
\* object that has a top-level error key
ErrorObjectAnswered ==
    /\ GetterCalled
    /\ call.fn # "get_intent_list"
    /\ Serves(call.fn, call.node_id)
    /\ call.outs[1].kind = "response"
    /\ call.outs[1].status = 200
    /\ call.outs[1].body.t = "dict"
    /\ "error" \in DOMAIN call.outs[1].body.v

\* what the same call returns when the connection is refused
WhenRefused ==
    CASE call.fn = "get_agents_status" ->
            get_agents_status(call.node_id, Fault("ConnectError"), call.pick)
      [] call.fn = "get_execution_metrics" ->
            get_execution_metrics(call.node_id, Fault("ConnectError"), call.pick)
      [] call.fn = "get_match_history" ->
            get_match_history(call.node_id, call.limit, Fault("ConnectError"),
                              call.pick)

\* C28: a 200 body that is a JSON object with a top-level error key is
\* treated like a failed call: get_node_status reports the node not running
\* with the key's value as error, get_builders_status returns no builders
\* with that error, and the agents, metrics and match getters return the
\* synthetic data they return for a failed call
C28_ErrorObjectTreatedAsFailure ==
    ErrorObjectAnswered =>
        /\ ~call.ret.raised
        /\ call.fn = "get_node_status" =>
              /\ call.ret.val.is_running = FALSE
              /\ call.ret.val.error = call.outs[1].body.v["error"]
        /\ call.fn = "get_builders_status" =>
              /\ call.ret.val.builders = <<>>
              /\ call.ret.val.error = call.outs[1].body.v["error"]
        /\ call.fn \in {"get_agents_status", "get_execution_metrics",
                        "get_match_history"} =>
              call.ret = WhenRefused

\* the health endpoint answered 200 with an error object and the node is
\* reported not running with that error
C28_Witness ==
    /\ ErrorObjectAnswered
    /\ call.fn = "get_node_status"
    /\ call.ret.val.is_running = FALSE
    /\ call.ret.val.error = JStr("degraded")

\* get_node_status has returned
NodeStatusReturned == call.fn = "get_node_status" /\ call.called

\* C30: in every NodeStatus get_node_status returns, is_running is true
\* exactly when error is null, a non-null error comes with a response time
\* of 0, and node_id is the id asked for
C30_RunningExactlyWhenNoError ==
    NodeStatusReturned =>
        /\ ~call.ret.raised
        /\ call.ret.val.is_running <=> call.ret.val.error = JNull
        /\ call.ret.val.error # JNull => call.ret.val.response_time_ms = JInt(0)
        /\ call.ret.val.node_id = call.node_id

\* the same with the equivalence read in one direction: a running node has
\* a null error
C30_RunningImpliesNoError ==
    NodeStatusReturned =>
        /\ ~call.ret.raised
        /\ call.ret.val.is_running => call.ret.val.error = JNull
        /\ call.ret.val.error # JNull =>
              /\ ~call.ret.val.is_running
              /\ call.ret.val.response_time_ms = JInt(0)
        /\ call.ret.val.node_id = call.node_id

----------------------------------------------------------------------------
(* Properties of the fetch metadata (checked under Spec) *)

\* C29: in every snapshot fetch_all_data returns, on the normal path and on
\* the deadline path, successful_tasks plus the length of errors is
\* total_tasks, and total_tasks is the number of tasks launched, 16
C29_MetadataCountsAddUp ==
    Returned =>
        /\ Meta.successful_tasks + Len(Meta.errors) = Meta.total_tasks
        /\ Meta.total_tasks = Len(results)
        /\ Meta.total_tasks = 16

\* the deadline fired and the snapshot counts sixteen errors and no success
C29_Witness ==
    /\ Returned
    /\ timedOut
    /\ Meta.successful_tasks = 0
    /\ Len(Meta.errors) = 16

\* the gather completed and the snapshot counts sixteen successes
C29_WitnessNormalPath ==
    Returned /\ ~timedOut /\ Meta.successful_tasks = 16
====
